---- MODULE Spec2Model ----
(***************************************************************************)
(* dockerregistrypusher: pushing the images of a docker-save archive to a  *)
(* Registry v2 endpoint.  The model follows src/core/processor.py (the     *)
(* coordinator and its thread pool), src/core/registry.py (the lock table, *)
(* the per-layer protocol and the chunked upload), the first_error         *)
(* sentinel of src/clients/logging/__init__.py and run() of                *)
(* src/dockerregistrypusher.py.  The registry server, the file system and  *)
(* the archive are the environment: their answers are chosen by \E.        *)
(* Spec is Processor.process() called on a constructed Processor, and     *)
(* LockSpec the same on three images with a pool of three threads; RunSpec *)
(* is the program started from the command line, whose run() does not get  *)
(* as far as a Processor; LoggerSpec is the logger called directly;        *)
(* PreSpec is _pre_process_contents called directly.                       *)
(***************************************************************************)
EXTENDS Integers, Sequences, FiniteSets, TLC

\* ------------------------------------------------------------------ bounds
\* largest pool size (the parallel argument) explored
MaxParallel == 2
\* the pool size of the run that is explored for the lock table with
\* three images
LockThreads == 3
\* largest number of registry answers per run that deviate from the
\* answer of a well-behaved registry
MaxFaults == 1

\* registry.py:383 chunk_size=256 * (1024 ** 2), scaled to the byte
\* strings of the model
ChunkSize == 2

Min(a, b) == IF a < b THEN a ELSE b

\* ------------------------------------------------------------- data model
\* Python's None where a digest is expected
NoDigest == [alg |-> "none", hex |-> <<>>]

\* hashlib.sha256 over a byte string: collision free, so the digest is
\* modelled by the bytes hashed; "sha256:" + hexdigest()
Sha256(bytes) == [alg |-> "sha256", hex |-> bytes]

\* a digest no file of the model has (a registry answering with a wrong
\* Docker-Content-Digest)
WrongDigest == [alg |-> "sha256", hex |-> <<7, 7>>]

\* a relative path of the archive, kept split into the directory part
\* (os.path.dirname), the stem and the extension (os.path.splitext)
Path(d, s, e) == [dir |-> d, stem |-> s, ext |-> e]

L1tar == Path("L1", "layer", ".tar")
L2tar == Path("L2", "layer", ".tar")
L3gz  == Path("L3", "layer.tar", ".gz")
L0tar == Path("L0", "layer", ".tar")
LXtar == Path("LX", "layer", ".tar")
CfgA  == Path("", "cfga", ".json")
CfgB  == Path("", "cfgb", ".json")
CfgBad == Path("", "cfgbad", ".json")

AllPaths == {L1tar, L2tar, L3gz, L0tar, LXtar, CfgA, CfgB, CfgBad}

\* the extracted tree: the bytes of every file (LXtar is listed by a
\* manifest but is not in the archive)
FileBytes(p) ==
    CASE p = L1tar -> <<1, 2, 3>>
      [] p = L2tar -> <<4>>
      [] p = L3gz  -> <<5, 6, 5, 6, 5>>
      [] p = L0tar -> <<>>
      [] p = CfgA  -> <<8>>
      [] p = CfgB  -> <<9, 9>>
      [] p = CfgBad -> <<0>>
      [] OTHER -> <<>>

FileExists(p) == p # LXtar

\* json.loads succeeds on the file's text
IsJson(p) == p \in {CfgA, CfgB}

\* an ImageEntry of manifest.json; a RepoTags entry is kept as the list of
\* its ':'-separated pieces (what str.split(":") returns)
Image(cfg, tags, layers) == [Config |-> cfg, RepoTags |-> tags, Layers |-> layers]

\* the archives explored: manifest.json (a sequence of ImageEntry) and
\* whether tarfile can extract it / manifest.json can be read
Archive(ok, mok, imgs) == [extractOk |-> ok, manifestOk |-> mok, images |-> imgs]

\* a:1 and b:1 sharing layer L1 (spec scenario 2)
ArchShared ==
    Archive(TRUE, TRUE,
        << Image(CfgA, << <<"a", "1">> >>, <<L1tar>>),
           Image(CfgB, << <<"b", "1">> >>, <<L1tar, L2tar>>) >>)
\* two images of one repository sharing layer L1
ArchSameRepo ==
    Archive(TRUE, TRUE,
        << Image(CfgA, << <<"a", "1">> >>, <<L1tar>>),
           Image(CfgB, << <<"a", "2">> >>, <<L1tar>>) >>)
\* one image, two tags, a five byte gzip layer (three chunks)
ArchTwoTags ==
    Archive(TRUE, TRUE,
        << Image(CfgA, << <<"a", "1">>, <<"a", "2">> >>, <<L3gz, L2tar>>) >>)
\* two images of one repository sharing an empty layer file
ArchEmptyLayer ==
    Archive(TRUE, TRUE,
        << Image(CfgA, << <<"a", "1">> >>, <<L0tar>>),
           Image(CfgB, << <<"a", "2">> >>, <<L0tar>>) >>)
\* entries the push cannot get through: a layer file that is missing, a
\* config that is no JSON, a tag without ':', a tag with a registry port
ArchBadEntries ==
    Archive(TRUE, TRUE,
        << Image(CfgA, << <<"a", "1">> >>, <<LXtar>>),
           Image(CfgBad, << <<"a", "2">> >>, <<L2tar>>),
           Image(CfgB, << <<"b", "1">>, <<"b">> >>, <<L2tar>>),
           Image(CfgB, << <<"host", "5000/img", "t">> >>, <<L2tar>>) >>)
\* not a tar archive
ArchNotTar == Archive(FALSE, TRUE, << >>)
\* no readable manifest.json in the archive
ArchNoManifest == Archive(TRUE, FALSE, << >>)
\* a tar archive with a member named ../evil.txt and no manifest.json
ArchTraversal ==
    [extractOk |-> TRUE, manifestOk |-> FALSE, images |-> << >>, escapes |-> TRUE]

Archives == {ArchShared, ArchSameRepo, ArchTwoTags, ArchEmptyLayer,
             ArchBadEntries, ArchNotTar, ArchNoManifest, ArchTraversal}

\* three images: two that share layer L2 and one whose layer, an empty
\* file, is in a directory of its own
ArchThree ==
    Archive(TRUE, TRUE,
        << Image(CfgA, << <<"a", "1">> >>, <<L2tar>>),
           Image(CfgA, << <<"a", "2">> >>, <<L2tar>>),
           Image(CfgA, << <<"b", "1">> >>, <<L0tar>>) >>)

Workers == 1..(IF MaxParallel > LockThreads THEN MaxParallel ELSE LockThreads)

\* ------------------------------------- the tree the recompression works on
\* gzip_ext = '.gz' of _pre_process_contents
GzipExt == ".gz"

\* file_path + gzip_ext, layer + gzip_ext, target_path + gzip_ext
AddExt(p, gzip_ext) == Path(p.dir, p.stem \o p.ext, gzip_ext)

TA    == Path("A", "layer", ".tar")
TB    == Path("B", "layer", ".tar")
TBase == Path("A", "base", ".tar")
TCfg  == Path("", "cfg", ".json")

\* _correct_symlinks: tmp_link_path = f'{path}_tmplink'
TmpLink(p) == Path(p.dir, p.stem, p.ext \o "_tmplink")

\* the paths a tree of the model may hold
PrePaths == {TA, TB, TBase} \cup {AddExt(q, GzipExt) : q \in {TA, TB, TBase}}
                \cup {TmpLink(q) : q \in {TA, TB, TBase}}

\* what is at a path: nothing, a regular file with its bytes, or a
\* symbolic link with its target
NoNode == [kind |-> "none", bytes |-> <<>>, target |-> TCfg]
File(b) == [kind |-> "file", bytes |-> b, target |-> TCfg]
Link(t) == [kind |-> "link", bytes |-> <<>>, target |-> t]

\* gzip.open(..., 'wb'): the bytes written carry the gzip header
Gzip(bytes) == <<31, 139>> \o bytes

\* a tree given by what it holds at the paths of f
Tree(f) == [q \in PrePaths |-> IF q \in DOMAIN f THEN f[q] ELSE NoNode]

\* one ImageEntry's config file: rootfs.diff_ids
Config(ids) == [diff_ids |-> ids]

\* an extracted archive: its files, its manifest.json and the config
Extracted(f, layers, ids) ==
    [tree |-> Tree(f),
     manifest |-> << Image(TCfg, << <<"a", "1">> >>, layers) >>,
     config |-> Config(ids)]

\* layer files as docker save writes them
TreePlain ==
    Extracted((TA :> File(<<1, 2>>)) @@ (TB :> File(<<3>>)),
              <<TA, TB>>, <<Sha256(<<1, 2>>), Sha256(<<3>>)>>)
\* the layout of older archives: a layer that is a symbolic link to the
\* layer.tar of another directory
TreeLinked ==
    Extracted((TA :> File(<<1, 2>>)) @@ (TB :> Link(TA)),
              <<TA, TB>>, <<Sha256(<<1, 2>>), Sha256(<<1, 2>>)>>)
\* a layer.tar with its layer.tar.gz already beside it, and a layer that
\* is listed as .tar.gz
TreePreGzipped ==
    Extracted((TA :> File(<<1, 2>>)) @@ (AddExt(TA, GzipExt) :> File(Gzip(<<1, 2>>)))
                  @@ (AddExt(TB, GzipExt) :> File(Gzip(<<3>>))),
              <<TA, AddExt(TB, GzipExt)>>, <<Sha256(<<1, 2>>), Sha256(<<3>>)>>)
\* a layer that is a symbolic link to the layer.tar of another directory,
\* with its layer.tar.gz already beside it
TreeLinkedGz ==
    Extracted((TA :> File(<<1, 2>>)) @@ (TB :> Link(TA))
                  @@ (AddExt(TB, GzipExt) :> File(Gzip(<<3>>))),
              <<TA, TB>>, <<Sha256(<<1, 2>>), Sha256(<<3>>)>>)
\* a layer that is a symbolic link to a file not named layer.tar
TreeOddLink ==
    Extracted((TBase :> File(<<1, 2>>)) @@ (TB :> Link(TBase)),
              <<TB>>, <<Sha256(<<1, 2>>)>>)
\* a manifest that lists a layer file the archive does not hold
TreeMissing ==
    Extracted((TA :> File(<<1, 2>>)),
              <<TA, TB>>, <<Sha256(<<1, 2>>), Sha256(<<3>>)>>)
\* nothing extracted
TreeNone == [tree |-> Tree(<<>>), manifest |-> <<>>, config |-> Config(<<>>)]

ExtractedTrees == {TreePlain, TreeLinked, TreePreGzipped, TreeLinkedGz, TreeOddLink,
                   TreeMissing}

\* ------------------------------------------------------------------ state
VARIABLES
    arch,          \* the archive given on the command line
    par,           \* Processor._parallel
    override,      \* tmp_dir_override: "none", "fresh" or "exists"
    preload,       \* the blobs the registry held before the run
    replace_tags_match,   \* Registry._replace_tags_match
    replace_tags_target,  \* Registry._replace_tags_target
    mainpc,        \* where run() / Processor.process() stands
    dirExists,     \* the working directory path exists on disk
    queue,         \* the pool's task queue (image positions)
    result,        \* per image: the state of its AsyncResult
    ci,            \* position of the result the coordinator waits for
    mainExc,       \* the exception process() is raising
    exitStatus,    \* the exit status of the program (-1: still running)
    first_error,   \* logger.manager.first_error
    global_lock,   \* LayersLock._global_lock: its holder, 0 when free
    layers_locks,  \* LayersLock._layers_locks: key -> lock object
    held,          \* per lock object: its holder, 0 when free
    blobs,         \* the registry: blobs linked to repositories
    manifests,     \* the registry: manifests stored, in order
    faults,        \* number of deviating registry answers so far
    pc,            \* per pool thread: where it stands
    img,           \* per pool thread: the image it processes
    ti,            \* per pool thread: position in RepoTags
    li,            \* per pool thread: position in Layers
    lk,            \* per pool thread: the lock object get_lock returned
    up,            \* per pool thread: locals of _chunked_upload
    linfo,         \* per pool thread: manifest_layer_info
    cinfo,         \* per pool thread: config_info
    unwind,        \* per pool thread: what the raised exception still passes
    sawNone,       \* per pool thread: error() read first_error as None
    reqs,          \* per image: the registry requests issued for it
    gzip_layers,   \* Processor._gzip_layers
    extracted,     \* the extracted archive _pre_process_contents is given
    tree,          \* the files under root_dir
    manifest_json, \* manifest.json under root_dir
    config_json,   \* the image config under root_dir
    prepc,         \* where _pre_process_contents stands ("off": not called)
    ptodo,         \* the files os.walk has still to visit
    pdirs,         \* rglob: the directories it has still to list
    pfound,        \* rglob: the paths listed that it has still to yield
    pqueue,        \* the task queue of the pool of _compress_layers
    ptask,         \* per path: the state of its _compress_layer task
    f_in,          \* per task with its layer file open: the file read
    f_out,         \* per task with its .gz open: the bytes not yet on disk
    stream,        \* the stream argument of Processor.__init__
    printed,       \* _stream_print has written to the terminal
    outside        \* a file outside the working directory was written

\* the recompression stage; process() never enters it
rglobv == <<pdirs, pfound>>
filev  == <<f_in, f_out>>
prev   == <<extracted, tree, manifest_json, config_json, prepc, ptodo, rglobv, pqueue,
            ptask, filev>>
inputs == <<arch, par, override, preload, replace_tags_match, replace_tags_target,
            gzip_layers, prev, stream>>
mainv  == <<mainpc, dirExists, ci, mainExc, exitStatus, outside>>
lockv  == <<global_lock, layers_locks, held>>
regv   == <<blobs, manifests, faults>>
wkv    == <<pc, img, ti, li, lk, up, linfo, cinfo, unwind, sawNone>>
\* what the recompression stage leaves alone
pushv  == <<arch, par, override, preload, replace_tags_match, replace_tags_target,
            gzip_layers, extracted, mainv, queue, result, first_error, lockv, regv,
            wkv, reqs, stream, printed>>
vars   == <<inputs, mainv, queue, result, first_error, lockv, regv, wkv, reqs, printed>>

NImages == Len(arch.images)

NoErr == [msg |-> "", img |-> 0]
NoExc == [kind |-> "none", img |-> 0]

UpIdle == [state |-> "idle", kind |-> "none", path |-> CfgA, total_size |-> 0,
           index |-> 0, length_read |-> 0, total_pushed_size |-> 0,
           sha |-> <<>>, digest |-> NoDigest, response_digest |-> NoDigest,
           upload_url |-> 0, li |-> 0, sent |-> 0, nput |-> 0]

NoInfo == [digest |-> NoDigest, size |-> 0]

\* a command line option that was not given (None); one that was given
\* carries its text, and a regular expression the tags re.match accepts
NoOption == [given |-> FALSE, text |-> "None", hits |-> {}]

\* --replace-tags-match 1: hits are the tags of the archives on which
\* re.compile("1").match(tag) succeeds (the tags that start with 1)
MatchOne == [given |-> TRUE, text |-> "1", hits |-> {"1"}]
\* --replace-tags-target v2
TargetV2 == [given |-> TRUE, text |-> "v2", hits |-> {}]

\* the tag options explored: all four combinations for the archive with
\* one image and two tags, none for the others
MatchOptions(a) == IF Len(a.images) = 1 THEN {NoOption, MatchOne} ELSE {NoOption}
TargetOptions(a) == IF Len(a.images) = 1 THEN {NoOption, TargetV2} ELSE {NoOption}

\* the registry before the run: empty, or (for an archive that lists
\* layer L1) holding L1 in repository a from an earlier push
Preloads(a) ==
    { {} } \cup
    IF \E i \in 1..Len(a.images) : \E l \in 1..Len(a.images[i].Layers) :
           a.images[i].Layers[l] = L1tar
    THEN { {[repo |-> "a", digest |-> Sha256(FileBytes(L1tar)), size |-> 3]} }
    ELSE {}

\* the working directory: tempfile.mkdtemp ("none"), or --tmp-dir-override
\* naming a path that is free ("fresh") or taken ("exists"); the override
\* is handled before the pool exists and is explored with one pool size
Overrides(p) == IF p = 1 THEN {"none", "fresh", "exists"} ELSE {"none"}

\* --gzip-layers, explored for the archive with one image
GzipFlags(a, m, t) ==
    IF Len(a.images) = 1 /\ m = NoOption /\ t = NoOption THEN BOOLEAN ELSE {FALSE}

NoTasks == [q \in PrePaths |-> "none"]

\* no task has a file open
NoFiles == [q \in {} |-> 0]

\* --stream, explored for the archive with one image
Streams(a, m, t, g) ==
    IF Len(a.images) = 1 /\ m = NoOption /\ t = NoOption /\ ~g THEN BOOLEAN ELSE {FALSE}

\* the stream argument handed on as it is
StreamPassed(parallel, strm) == strm

\* Processor.__init__: the stream argument Registry is constructed with
RegistryStream(parallel, strm) == IF parallel > 1 /\ strm THEN FALSE ELSE strm

\* Registry._stream_print: prints if self._stream
StreamPrint(strm, out) == out \/ strm

\* Processor and Registry constructed for the archive and the pool size,
\* process() not yet called
Start ==
    /\ override \in Overrides(par)
    /\ mainpc = "start"
    /\ dirExists = (override = "exists")
    /\ queue = <<>>
    /\ result = [i \in 1..NImages |-> "none"]
    /\ ci = 0
    /\ mainExc = NoExc
    /\ exitStatus = -1
    /\ outside = FALSE
    /\ first_error = NoErr
    /\ global_lock = 0
    /\ layers_locks = [k \in {} |-> 0]
    /\ held = <<>>
    /\ preload \in Preloads(arch)
    /\ replace_tags_match \in MatchOptions(arch)
    /\ replace_tags_target \in TargetOptions(arch)
    /\ blobs = preload
    /\ manifests = <<>>
    /\ faults = 0
    /\ pc = [w \in Workers |-> "idle"]
    /\ img = [w \in Workers |-> 0]
    /\ ti = [w \in Workers |-> 0]
    /\ li = [w \in Workers |-> 0]
    /\ lk = [w \in Workers |-> 0]
    /\ up = [w \in Workers |-> UpIdle]
    /\ linfo = [w \in Workers |-> <<>>]
    /\ cinfo = [w \in Workers |-> NoInfo]
    /\ unwind = [w \in Workers |-> <<>>]
    /\ sawNone = [w \in Workers |-> FALSE]
    /\ reqs = [i \in 1..NImages |-> <<>>]
    /\ gzip_layers \in GzipFlags(arch, replace_tags_match, replace_tags_target)
    /\ extracted = TreeNone
    /\ tree = TreeNone.tree
    /\ manifest_json = TreeNone.manifest
    /\ config_json = TreeNone.config
    /\ prepc = "off"
    /\ ptodo = {}
    /\ pdirs = {}
    /\ pfound = {}
    /\ pqueue = <<>>
    /\ ptask = NoTasks
    /\ f_in = NoFiles
    /\ f_out = NoFiles
    /\ stream \in Streams(arch, replace_tags_match, replace_tags_target, gzip_layers)
    /\ printed = FALSE

Init ==
    /\ arch \in Archives
    /\ par \in 1..MaxParallel
    /\ Start

\* process() on the archive of three images with a pool of three threads
LockInit ==
    /\ arch = ArchThree
    /\ par = LockThreads
    /\ Start

\* ------------------------------------------- Processor.process and run()
\* rmtree placed after the try block instead of in its finally clause
DirAfterCleanup(exc) == exc # NoExc

\* shutil.rmtree in the finally clause of process(): whether the working
\* directory is still there afterwards, whatever exception is in flight
DirAfterFinally(exc) == FALSE

\* no pool.join() before the results are read
JoinSkipped(res) == TRUE

\* pool.join(): every task handed to the pool has finished
JoinDone(res) == \A i \in DOMAIN res : res[i] \in {"ok", "failed"}


\* AsyncResult.get() re-raises what the task raised
ResultRaises(r) == r = "failed"

\* the exception of the task whose error was logged first
ResultFirstLogged(c) == [kind |-> "worker", img |-> first_error.img]

\* for res in results: res.get() - the exception of the task at position
\* c of the results, which process() lets through
ResultException(c) == [kind |-> "worker", img |-> c]

\* run(): retval = 1, set to 0 when logger.first_error is None
Retval(fe) == IF fe = NoErr THEN 0 ELSE 1

\* sys.exit(run(args)); an exception leaving run() ends the interpreter
\* with status 1
ExitStatus(raised, fe) == IF raised THEN 1 ELSE Retval(fe)

\* a directory that is there is accepted, as os.makedirs(exist_ok=True)
MkdirExistOk(ov) == FALSE

\* os.mkdir(tmp_dir_override, 0o700) raises FileExistsError when the path
\* is taken
MkdirRaises(ov) == ov = "exists"

\* process(): os.mkdir(tmp_dir_override, 0o700) or tempfile.mkdtemp, before
\* the try block
Mkdir ==
    /\ mainpc = "start"
    /\ IF MkdirRaises(override)
         THEN /\ mainExc' = [kind |-> "FileExistsError", img |-> 0]
              /\ mainpc' = "raised"
              /\ UNCHANGED dirExists
         ELSE /\ dirExists' = TRUE
              /\ mainpc' = "extract"
              /\ UNCHANGED mainExc
    /\ UNCHANGED <<inputs, printed, outside, ci, exitStatus, queue, result, first_error, lockv, regv, wkv, reqs>>

\* the archive has a member whose resolved path is outside target_dir
Escapes(a) == "escapes" \in DOMAIN a /\ a.escapes

\* what TarFile.extractall(target_dir), called without a filter, does with
\* such a member is up to the interpreter's default extraction filter:
\* it is written where its name leads (FALSE) or refused with an error
\* (TRUE)
TarfileRefuses == BOOLEAN

\* self._extractor.extract_all(tmp_dir_name)
ExtractAll ==
    /\ mainpc = "extract"
    /\ IF ~arch.extractOk
         THEN /\ mainpc' = "finally" /\ mainExc' = [kind |-> "extract", img |-> 0]
              /\ UNCHANGED outside
         ELSE IF Escapes(arch)
         THEN \E refused \in TarfileRefuses :
                IF refused
                THEN /\ mainpc' = "finally" /\ mainExc' = [kind |-> "extract", img |-> 0]
                     /\ UNCHANGED outside
                ELSE /\ mainpc' = "manifest" /\ UNCHANGED mainExc
                     /\ outside' = TRUE
         ELSE /\ mainpc' = "manifest" /\ UNCHANGED <<mainExc, outside>>
    /\ UNCHANGED <<inputs, printed, dirExists, ci, exitStatus, queue, result, first_error, lockv, regv, wkv, reqs>>

\* self._get_manifest(tmp_dir_name); the call of _pre_process_contents
\* that stands before it in the source is commented out (line 87)
GetManifest ==
    /\ mainpc = "manifest"
    /\ IF arch.manifestOk
         THEN mainpc' = "dispatch" /\ UNCHANGED mainExc
         ELSE mainpc' = "finally" /\ mainExc' = [kind |-> "manifest", img |-> 0]
    /\ UNCHANGED <<inputs, printed, outside, dirExists, ci, exitStatus, queue, result, first_error, lockv, regv, wkv, reqs>>

\* pool.apply_async(process_image, ...) for the next image of the manifest
ApplyAsync ==
    /\ mainpc = "dispatch"
    /\ \E i \in 1..NImages :
         /\ result[i] = "none"
         /\ \A j \in 1..(i - 1) : result[j] # "none"
         /\ queue' = Append(queue, i)
         /\ result' = [result EXCEPT ![i] = "queued"]
    /\ UNCHANGED <<inputs, printed, mainv, first_error, lockv, regv, wkv, reqs>>

\* pool.close(); pool.join()
Join ==
    /\ mainpc = "dispatch"
    /\ \A i \in 1..NImages : result[i] # "none"
    /\ JoinDone(result)
    /\ mainpc' = "collect"
    /\ ci' = 1
    /\ UNCHANGED <<inputs, printed, outside, dirExists, mainExc, exitStatus, queue, result, first_error, lockv, regv, wkv, reqs>>

\* for res in results: res.get()
Collect ==
    /\ mainpc = "collect"
    /\ IF ci > NImages
         THEN mainpc' = "finally" /\ UNCHANGED <<ci, mainExc>>
         ELSE /\ result[ci] \in {"ok", "failed"}
              /\ IF ResultRaises(result[ci])
                   THEN /\ mainExc' = ResultException(ci)
                        /\ mainpc' = "finally"
                        /\ UNCHANGED ci
                   ELSE /\ ci' = ci + 1
                        /\ UNCHANGED <<mainpc, mainExc>>
    /\ UNCHANGED <<inputs, printed, outside, dirExists, exitStatus, queue, result, first_error, lockv, regv, wkv, reqs>>

\* finally: shutil.rmtree(tmp_dir_name); then process() returns or the
\* exception goes on
Finally ==
    /\ mainpc = "finally"
    /\ dirExists' = DirAfterFinally(mainExc)
    /\ mainpc' = IF mainExc = NoExc THEN "returned" ELSE "raised"
    /\ UNCHANGED <<inputs, printed, outside, ci, mainExc, exitStatus, queue, result, first_error, lockv, regv, wkv, reqs>>

\* run() up to line 39: the logger is made, then core.Registry(...) is
\* evaluated.  The package core has no attribute Registry (src holds no
\* core/__init__.py, and the class Registry of core/registry.py takes no
\* archive_path and has no process_archive): AttributeError, whatever the
\* arguments; lines 40-44 are not reached and nothing is processed
Run ==
    /\ mainpc = "run"
    /\ mainExc' = [kind |-> "AttributeError", img |-> 0]
    /\ mainpc' = "raised"
    /\ UNCHANGED <<inputs, printed, outside, dirExists, ci, exitStatus, queue, result, first_error, lockv, regv, wkv, reqs>>

\* the interpreter ends: sys.exit(ret_val) after run() returned, status 1
\* after an exception left run()
Exit ==
    /\ mainpc \in {"returned", "raised"}
    /\ exitStatus' = ExitStatus(mainpc = "raised", first_error)
    /\ mainpc' = "exit"
    /\ UNCHANGED <<inputs, printed, outside, dirExists, ci, mainExc, queue, result, first_error, lockv, regv, wkv, reqs>>

\* ------------------------------------------------------- LayersLock
\* one lock object for every key
SetDefaultShared(d, k, v) ==
    IF k \in DOMAIN d THEN d
    ELSE [x \in DOMAIN d \cup {k} |-> IF x = k THEN 1 ELSE d[x]]

\* the entry assigned on every call, as self._layers_locks[key] = Lock()
SetDefaultAssign(d, k, v) == [x \in DOMAIN d \cup {k} |-> IF x = k THEN v ELSE d[x]]

\* dict.setdefault(key, threading.Lock()): the entry is created on the
\* first reference only; v is the lock object just constructed
SetDefault(d, k, v) ==
    IF k \in DOMAIN d THEN d
    ELSE [x \in DOMAIN d \cup {k} |-> IF x = k THEN v ELSE d[x]]

\* get_lock returning with the table lock still taken
TableLockKept(w) == w

\* get_lock, finally: self._global_lock.release()
TableLockReleased(w) == 0

\* a release() that leaves the lock held
ReleaseLost(h, l) == h

\* Lock.release(): the lock is free again
Released(h, l) == [h EXCEPT ![l] = 0]

\* Lock.acquire() goes through when the lock is free
CanAcquire(h, l) == h[l] = 0

\* ------------------------------------------------- Registry, pure parts
CurImage(w) == arch.images[img[w]]
RepoTag(w)  == CurImage(w).RepoTags[ti[w]]
Layer(w)    == CurImage(w).Layers[li[w]]

\* _parse_image_tag: image, tag = image_ref.split(":") unpacks exactly two
\* pieces, and raises ValueError otherwise
ParseOk(ref) == Len(ref) = 2
\* the tag taken from the wrong side of the ':'
ParseTagFirst(ref) == ref[1]
ParseImage(ref) == ref[1]
ParseTag(ref) == ref[2]

Repo(w) == ParseImage(RepoTag(w))

\* os.path.dirname(layer)
LayerKey(layer) == layer.dir

\* utils.helpers.get_digest(layer_path)
GetDigest(p) == Sha256(FileBytes(p))

\* status checks left out
HeadNeverHit(st) == FALSE
PutAlwaysOk(st) == TRUE
HeadHitOnMiss(st) == st = 404
DigestUnchecked(response_digest, digest) == FALSE
ManifestAlwaysOk(st) == TRUE

\* the status checks of the client
HeadHit(st) == st = 200
PostOk(st) == st = 202
PatchOk(st) == st = 202
PutOk(st) == st = 201
ManifestOk(st) == st = 201

\* _chunked_upload, the two checks after the loop
SizeMismatch(pushed, total) == pushed # total
DigestMismatch(response_digest, digest) == response_digest # digest

\* no chunk is taken to end the file
IsLastNever(length_read, total_size) == FALSE
\* the range with its last byte as the end, as in bytes=0-1
ContentRangeInclusive(index, offset) == [start |-> index, end |-> offset - 1]
\* the Location of a PATCH response ignored
UrlKept(upload_url, location) == upload_url

\* _chunked_upload: last = True if length_read == total_size
IsLast(length_read, total_size) == length_read = total_size

\* _chunked_upload: headers['Content-Range'] = f'{index}-{offset}'
ContentRange(index, offset) == [start |-> index, end |-> offset]

\* _chunked_upload: if "Location" in response.headers: upload_url =
\* response.headers["Location"]; location 0 is a response without the
\* header
NextUrl(upload_url, location) == IF location # 0 THEN location ELSE upload_url

\* _read_in_chunks: the number of chunks a file of total_size bytes is
\* read as
NChunks(total_size) == (total_size + ChunkSize - 1) \div ChunkSize

\* _read_in_chunks: the next file_object.read(chunk_size) at position pos
ReadChunk(bytes, pos) == SubSeq(bytes, pos + 1, Min(pos + ChunkSize, Len(bytes)))

TarGzip == "application/vnd.docker.image.rootfs.diff.tar.gzip"
TarPlain == "application/vnd.docker.image.rootfs.diff.tar"

\* ImageManifestCreator.create, the media type of a layer: both branches
\* of the source assign the gzip type
MediaType(ext) == IF ext \in {".gz", ".gzip"} THEN TarGzip ELSE TarGzip

\* ImageManifestCreator.create
CreateManifest(layers_info, config_info) ==
    [schemaVersion |-> 2,
     mediaType |-> "application/vnd.docker.distribution.manifest.v2+json",
     config |-> [mediaType |-> "application/vnd.docker.container.image.v1+json",
                 size |-> config_info.size, digest |-> config_info.digest],
     layers |-> [i \in 1..Len(layers_info) |->
                    [mediaType |-> MediaType(layers_info[i].ext),
                     size |-> layers_info[i].size,
                     digest |-> layers_info[i].digest]]]

\* the image name and the tag in each other's place
ManifestUrlSwapped(image, tag) == [repo |-> tag, tag |-> image]

\* _push_manifest: url = f'{self._registry_url}/v2/{image}/manifests/{tag}'
ManifestUrl(image, tag) == [repo |-> image, tag |-> tag]

\* _push_manifest: the Content-Type header of the manifest PUT
ManifestContentType == "application/vnd.docker.distribution.manifest.v2+json"

\* a request as the registry sees it, with the answer it gave
Req(w, m, kind, st) ==
    [m |-> m, repo |-> Repo(w), kind |-> kind, ti |-> ti[w],
     li |-> IF kind = "layer" THEN li[w] ELSE 0, st |-> st,
     start |-> 0, end |-> 0, clen |-> 0, url |-> 0, rloc |-> 0,
     dg |-> NoDigest, rdg |-> NoDigest, rsize |-> 0, tag |-> "", ctype |-> "", body |-> <<>>]

Log(w, r) == reqs' = [reqs EXCEPT ![img[w]] = Append(@, r)]

REL == "<release layer lock>"
EImage == "Failed processing image"

\* an exception starts to propagate: items are the error() calls and the
\* finally clause it passes on its way out of the task
Raise(w, items) ==
    /\ pc' = [pc EXCEPT ![w] = "unwind"]
    /\ unwind' = [unwind EXCEPT ![w] = items]

\* _process_layer without its finally clause
OutNoFinally(kind, msgs) == msgs \o <<EImage>>

\* the items passed by an exception raised inside _process_layer or below
\* (kind "layer", under the lock) or in the config upload (kind "config")
Out(kind, msgs) == msgs \o (IF kind = "layer" THEN <<REL>> ELSE <<>>) \o <<EImage>>

\* ---------------------------------------------------- the pool threads
\* a pool thread takes the next task: process_image(logger, registry, ...).
\* The threads of a pool are interchangeable: of the idle ones the one
\* with the lowest number is taken to be the one that gets the task.
TakeTask(w) ==
    /\ pc[w] = "idle"
    /\ w <= par
    /\ \A v \in 1..(w - 1) : pc[v] # "idle"
    /\ queue # <<>>
    /\ img' = [img EXCEPT ![w] = Head(queue)]
    /\ queue' = Tail(queue)
    /\ result' = [result EXCEPT ![Head(queue)] = "running"]
    /\ pc' = [pc EXCEPT ![w] = "load"]
    /\ UNCHANGED <<inputs, printed, mainv, first_error, lockv, regv, reqs,
                   ti, li, lk, up, linfo, cinfo, unwind, sawNone>>

\* Registry.process_image up to the loop: load_json_file(config_path)
LoadConfig(w) ==
    /\ pc[w] = "load"
    /\ IF FileExists(CurImage(w).Config) /\ IsJson(CurImage(w).Config)
         THEN /\ pc' = [pc EXCEPT ![w] = "tag"]
              /\ ti' = [ti EXCEPT ![w] = 1]
              /\ UNCHANGED unwind
         ELSE /\ Raise(w, <<EImage>>)
              /\ UNCHANGED ti
    /\ UNCHANGED <<inputs, printed, mainv, queue, result, first_error, lockv, regv, reqs,
                   img, li, lk, up, linfo, cinfo, sawNone>>

\* the image config pushed for the first RepoTags entry only
ConfigOnce(t) == IF t = 1 THEN "cfg_post" ELSE "manifest"

\* process_image, after the loop over the layers: push_url =
\* self._initialize_push(image), for every RepoTags entry (position t)
ConfigStep(t) == "cfg_post"

\* for repo in repo_tags: image, tag = self._parse_image_tag(repo);
\* manifest_layer_info = []
BeginTag(w) ==
    /\ pc[w] = "tag"
    /\ ti[w] <= Len(CurImage(w).RepoTags)
    /\ IF ParseOk(RepoTag(w))
         THEN /\ pc' = [pc EXCEPT ![w] =
                       IF CurImage(w).Layers = <<>> THEN ConfigStep(ti[w]) ELSE "getlock"]
              /\ li' = [li EXCEPT ![w] = 1]
              /\ linfo' = [linfo EXCEPT ![w] = <<>>]
              /\ cinfo' = [cinfo EXCEPT ![w] = NoInfo]
              /\ up' = [up EXCEPT ![w] = UpIdle]
              /\ UNCHANGED unwind
         ELSE /\ Raise(w, <<EImage>>)
              /\ UNCHANGED <<li, linfo, cinfo, up>>
    /\ UNCHANGED <<inputs, printed, mainv, queue, result, first_error, lockv, regv, reqs,
                   img, ti, lk, sawNone>>

\* the loop over repo_tags is over: the task returns
TaskDone(w) ==
    /\ pc[w] = "tag"
    /\ ti[w] > Len(CurImage(w).RepoTags)
    /\ result' = [result EXCEPT ![img[w]] = "ok"]
    /\ pc' = [pc EXCEPT ![w] = "idle"]
    /\ img' = [img EXCEPT ![w] = 0]
    /\ ti' = [ti EXCEPT ![w] = 0]
    /\ li' = [li EXCEPT ![w] = 0]
    /\ lk' = [lk EXCEPT ![w] = 0]
    /\ up' = [up EXCEPT ![w] = UpIdle]
    /\ linfo' = [linfo EXCEPT ![w] = <<>>]
    /\ cinfo' = [cinfo EXCEPT ![w] = NoInfo]
    /\ UNCHANGED <<inputs, printed, mainv, queue, first_error, lockv, regv, reqs, unwind, sawNone>>

\* get_lock: self._global_lock.acquire(), in _process_layer before
\* acquire() (pc getlock) and in its finally clause (pc rel_gl, or the
\* finally clause is the next thing the exception passes)
GetLockEnter(w) ==
    /\ \/ pc[w] \in {"getlock", "rel_gl"}
       \/ pc[w] = "unwind" /\ unwind[w] # <<>> /\ Head(unwind[w]) = REL
    /\ global_lock = 0
    /\ global_lock' = w
    /\ pc' = [pc EXCEPT ![w] = IF pc[w] = "getlock" THEN "getlock2" ELSE "rel_gl2"]
    /\ unwind' = [unwind EXCEPT ![w] = IF pc[w] = "unwind" THEN Tail(@) ELSE @]
    /\ UNCHANGED <<inputs, printed, mainv, queue, result, first_error, layers_locks, held, regv,
                   reqs, img, ti, li, lk, up, linfo, cinfo, sawNone>>

\* get_lock: setdefault, return the entry, release the table lock
GetLockReturn(w) ==
    /\ pc[w] \in {"getlock2", "rel_gl2"}
    /\ LET d == SetDefault(layers_locks, LayerKey(Layer(w)), Len(held) + 1)
       IN /\ layers_locks' = d
          /\ held' = IF d[LayerKey(Layer(w))] > Len(held) THEN Append(held, 0) ELSE held
          /\ lk' = [lk EXCEPT ![w] = d[LayerKey(Layer(w))]]
    /\ global_lock' = TableLockReleased(w)
    /\ pc' = [pc EXCEPT ![w] = IF pc[w] = "getlock2" THEN "acquire" ELSE "rel"]
    /\ UNCHANGED <<inputs, printed, mainv, queue, result, first_error, regv, reqs,
                   img, ti, li, up, linfo, cinfo, unwind, sawNone>>

\* self._layers_lock.get_lock(layer_key).acquire()
Acquire(w) ==
    /\ pc[w] = "acquire"
    /\ CanAcquire(held, lk[w])
    /\ held' = [held EXCEPT ![lk[w]] = w]
    /\ pc' = [pc EXCEPT ![w] = "probe"]
    /\ UNCHANGED <<inputs, printed, mainv, queue, result, first_error, global_lock, layers_locks,
                   regv, reqs, img, ti, li, lk, up, linfo, cinfo, unwind, sawNone>>

\* finally: self._layers_lock.get_lock(layer_key).release(); then the
\* exception goes on, or the loop over the layers does
Release(w) ==
    /\ pc[w] = "rel"
    /\ held' = Released(held, lk[w])
    /\ IF unwind[w] # <<>>
         THEN pc' = [pc EXCEPT ![w] = "unwind"] /\ UNCHANGED li
         ELSE /\ li' = [li EXCEPT ![w] = @ + 1]
              /\ pc' = [pc EXCEPT ![w] =
                       IF li[w] + 1 > Len(CurImage(w).Layers)
                       THEN ConfigStep(ti[w]) ELSE "getlock"]
    /\ UNCHANGED <<inputs, printed, mainv, queue, result, first_error, global_lock, layers_locks,
                   regv, reqs, img, ti, lk, up, linfo, cinfo, unwind, sawNone>>

\* -------------------------------------------------- the registry's answers
\* the blobs of a digest linked to a repository / known to the registry
InRepo(repo, dg) == {b \in blobs : b.repo = repo /\ b.digest = dg}
Anywhere(dg) == {b \in blobs : b.digest = dg}

CanFault == faults < MaxFaults

\* what a registry may answer to HEAD /v2/<repo>/blobs/<dg>: 200 with the
\* blob's Content-Length and Docker-Content-Digest for a blob linked to
\* the repository, 404 for one that is not; for a blob it holds for
\* another repository only, registries differ (200 or 404).  Deviations:
\* 500 for a blob that is there, or no answer at all (requests raises, 0).
HeadAnswers(repo, dg) ==
    LET present == InRepo(repo, dg) # {}
        ans(st, d, n, f) == [st |-> st, rdg |-> d, rsize |-> n, fault |-> f]
    IN  {ans(200, b.digest, b.size, FALSE) :
            b \in (IF present THEN InRepo(repo, dg) ELSE Anywhere(dg))}
        \cup (IF present THEN {} ELSE {ans(404, NoDigest, 0, FALSE)})
        \cup (IF CanFault THEN {ans(0, NoDigest, 0, TRUE)} ELSE {})
        \cup (IF CanFault /\ present THEN {ans(500, NoDigest, 0, TRUE)} ELSE {})

\* _process_layer under the lock: get_digest, requests.head and the branch
\* on its status
ProbeLayer(w) ==
    /\ pc[w] = "probe"
    /\ IF ~FileExists(Layer(w))
         THEN /\ Raise(w, <<REL, EImage>>)
              /\ UNCHANGED <<linfo, reqs, faults>>
         ELSE \E a \in HeadAnswers(Repo(w), GetDigest(Layer(w))) :
              /\ Log(w, [Req(w, "HEAD", "layer", a.st) EXCEPT
                            !.dg = GetDigest(Layer(w)), !.rdg = a.rdg, !.rsize = a.rsize])
              /\ faults' = IF a.fault THEN faults + 1 ELSE faults
              /\ IF a.st = 0
                   THEN Raise(w, <<REL, EImage>>) /\ UNCHANGED linfo
                   ELSE IF HeadHit(a.st)
                   THEN /\ linfo' = [linfo EXCEPT ![w] = Append(@,
                               [digest |-> a.rdg, size |-> a.rsize, ext |-> Layer(w).ext])]
                        /\ pc' = [pc EXCEPT ![w] = "rel_gl"]
                        /\ UNCHANGED unwind
                   ELSE /\ pc' = [pc EXCEPT ![w] = "post"]
                        /\ UNCHANGED <<unwind, linfo>>
    /\ UNCHANGED <<inputs, printed, mainv, queue, result, first_error, lockv, blobs, manifests,
                   img, ti, li, lk, up, cinfo, sawNone>>

\* _initialize_push: requests.post(.../v2/<repository>/blobs/uploads/), for
\* a layer (under its lock) or for the image config; on 202 the caller
\* enters _chunked_upload, whose locals are set up here.  Deviations: a
\* status other than 202, or 202 without a Location header.
InitializePush(w) ==
    /\ pc[w] \in {"post", "cfg_post"}
    /\ LET kind == IF pc[w] = "post" THEN "layer" ELSE "config"
           path == IF pc[w] = "post" THEN Layer(w) ELSE CurImage(w).Config
       IN \E st \in {202, 500}, loc \in {0, 1} :
            /\ (st = 202 /\ loc = 1) \/ CanFault
            /\ st = 500 => loc = 0
            /\ faults' = IF st = 202 /\ loc = 1 THEN faults ELSE faults + 1
            /\ Log(w, [Req(w, "POST", kind, st) EXCEPT !.url = loc])
            /\ IF PostOk(st)
                 THEN /\ up' = [up EXCEPT ![w] = [UpIdle EXCEPT
                                   !.state = "uploading", !.kind = kind, !.path = path,
                                   !.li = IF kind = "layer" THEN li[w] ELSE 0,
                                   !.total_size = Len(FileBytes(path)),
                                   !.upload_url = loc]]
                      /\ pc' = [pc EXCEPT ![w] = "chunk"]
                      /\ UNCHANGED unwind
                 ELSE /\ Raise(w, Out(kind, <<"Failed to initialize push">>))
                      /\ UNCHANGED up
    /\ UNCHANGED <<inputs, printed, mainv, queue, result, first_error, lockv, blobs, manifests,
                   img, ti, li, lk, linfo, cinfo, sawNone>>

\* _chunked_upload, one turn of the loop: read a chunk, PATCH it, or PUT
\* it with the digest when it ends the file.  A registry that moves the
\* session answers a PATCH with a Location it has not handed out before
\* (the URLs are numbered).  Deviations: a PATCH status
\* other than 202, a PUT status other than 201, a 201 whose
\* Docker-Content-Digest is not the digest of the bytes received.
SendChunk(w) ==
    /\ pc[w] = "chunk"
    /\ LET u == up[w]
           chunk == ReadChunk(FileBytes(u.path), u.length_read)
           length_read == u.length_read + Len(chunk)
           offset == u.index + Len(chunk)
           sha == u.sha \o chunk
           last == IsLast(length_read, u.total_size)
           u1 == [u EXCEPT !.length_read = length_read, !.index = offset, !.sha = sha]
           rq(m, st) == [Req(w, m, u.kind, st) EXCEPT
                            !.start = ContentRange(u.index, offset).start,
                            !.end = ContentRange(u.index, offset).end,
                            !.clen = Len(chunk),
                            !.url = u.upload_url]
       IN /\ chunk # <<>>
          /\ printed' = StreamPrint(RegistryStream(par, stream), printed)
          /\ IF u.upload_url = 0
               THEN \* requests refuses the URL "None...": caught at line 353;
                    \* before the PUT the digest has been assigned (311)
                    /\ up' = [up EXCEPT ![w] = [u1 EXCEPT
                                 !.digest = IF last THEN Sha256(sha) ELSE @,
                                 !.state = "failed"]]
                    /\ Raise(w, Out(u.kind, <<"Failed to upload file">>))
                    /\ UNCHANGED <<reqs, blobs, faults>>
               ELSE IF last
               THEN LET dg == Sha256(sha) IN
                    \E st \in {201, 400}, rdg \in {dg, WrongDigest} :
                      /\ (st = 201 /\ rdg = dg) \/ CanFault
                      /\ st = 400 => rdg = dg
                      /\ faults' = IF st = 201 /\ rdg = dg THEN faults ELSE faults + 1
                      /\ Log(w, [rq("PUT", st) EXCEPT !.dg = dg,
                                    !.rdg = IF st = 201 THEN rdg ELSE NoDigest])
                      /\ IF PutOk(st)
                           THEN /\ up' = [up EXCEPT ![w] = [u1 EXCEPT
                                          !.digest = dg, !.response_digest = rdg,
                                          !.total_pushed_size = @ + Len(chunk),
                                          !.sent = @ + Len(chunk), !.nput = @ + 1]]
                                /\ blobs' = blobs \cup
                                      {[repo |-> Repo(w), digest |-> dg, size |-> Len(sha)]}
                                /\ UNCHANGED <<pc, unwind>>
                           ELSE /\ up' = [up EXCEPT ![w] = [u1 EXCEPT
                                          !.digest = dg, !.state = "failed",
                                          !.sent = @ + Len(chunk), !.nput = @ + 1]]
                                /\ Raise(w, Out(u.kind,
                                       <<"Failed to complete upload", "Failed to upload file">>))
                                /\ UNCHANGED blobs
               ELSE \E st \in {202, 500}, loc \in {0, 1} :
                      /\ st = 202 \/ CanFault
                      /\ st = 500 => loc = 0
                      /\ faults' = IF st = 202 THEN faults ELSE faults + 1
                      /\ Log(w, [rq("PATCH", st) EXCEPT
                                    !.rloc = IF loc = 1 THEN u.upload_url + 1 ELSE 0])
                      /\ UNCHANGED blobs
                      /\ IF PatchOk(st)
                           THEN /\ up' = [up EXCEPT ![w] = [u1 EXCEPT
                                          !.upload_url = NextUrl(@,
                                              IF loc = 1 THEN @ + 1 ELSE 0),
                                          !.total_pushed_size = @ + Len(chunk),
                                          !.sent = @ + Len(chunk)]]
                                /\ UNCHANGED <<pc, unwind>>
                           ELSE /\ up' = [up EXCEPT ![w] = [u1 EXCEPT
                                          !.state = "failed", !.sent = @ + Len(chunk)]]
                                /\ Raise(w, Out(u.kind,
                                       <<"Failed to upload chunk", "Failed to upload file">>))
    /\ UNCHANGED <<inputs, mainv, queue, result, first_error, lockv, manifests,
                   img, ti, li, lk, linfo, cinfo, sawNone>>

\* _chunked_upload after the loop: the two sanity checks and the return
\* into _process_layer (which appends to manifest_layer_info and leaves
\* through its finally clause) or into process_image (config_info)
UploadReturn(w) ==
    /\ pc[w] = "chunk"
    /\ LET u == up[w] IN
       /\ ReadChunk(FileBytes(u.path), u.length_read) = <<>>
       /\ IF SizeMismatch(u.total_pushed_size, u.total_size)
            THEN /\ Raise(w, Out(u.kind,
                        <<"File size and pushed size differ, inconsistency detected">>))
                 /\ up' = [up EXCEPT ![w].state = "failed"]
                 /\ UNCHANGED <<linfo, cinfo, printed>>
            ELSE IF DigestMismatch(u.response_digest, u.digest)
            THEN /\ Raise(w, Out(u.kind,
                        <<"Server-side digest different from client digest">>))
                 /\ up' = [up EXCEPT ![w].state = "failed"]
                 /\ UNCHANGED <<linfo, cinfo, printed>>
            ELSE /\ up' = [up EXCEPT ![w].state = "returned"]
                 /\ printed' = StreamPrint(RegistryStream(par, stream), printed)
                 /\ UNCHANGED unwind
                 /\ IF u.kind = "layer"
                      THEN /\ linfo' = [linfo EXCEPT ![w] = Append(@,
                                  [digest |-> u.response_digest, size |-> u.total_pushed_size,
                                   ext |-> Layer(w).ext])]
                           /\ pc' = [pc EXCEPT ![w] = "rel_gl"]
                           /\ UNCHANGED cinfo
                      ELSE /\ cinfo' = [cinfo EXCEPT ![w] =
                                  [digest |-> u.response_digest, size |-> u.total_pushed_size]]
                           /\ pc' = [pc EXCEPT ![w] = "manifest"]
                           /\ UNCHANGED linfo
    /\ UNCHANGED <<inputs, mainv, queue, result, first_error, lockv, regv, reqs,
                   img, ti, li, lk, sawNone>>

\* _replace_tag: the test reads "self._replace_tags_match and
\* self._replace_tags_match"; on a match the target is returned, None
\* included (formatted into the URL as "None")
ReplaceTag(match, target, orig_tag) ==
    IF match.given /\ match.given
    THEN IF orig_tag \in match.hits THEN target.text ELSE orig_tag
    ELSE orig_tag

\* process_image, the end of one turn of the loop over repo_tags:
\* _replace_tag, ImageManifestCreator(...).create() and _push_manifest.
\* Deviation: a status other than 201.
PushManifest(w) ==
    /\ pc[w] = "manifest"
    /\ LET tag == ReplaceTag(replace_tags_match, replace_tags_target, ParseTag(RepoTag(w)))
           body == CreateManifest(linfo[w], cinfo[w])
       IN \E st \in {201, 500} :
            /\ st = 201 \/ CanFault
            /\ faults' = IF st = 201 THEN faults ELSE faults + 1
            /\ Log(w, [Req(w, "PUT", "manifest", st) EXCEPT
                          !.repo = ManifestUrl(Repo(w), tag).repo,
                          !.tag = ManifestUrl(Repo(w), tag).tag,
                          !.ctype = ManifestContentType, !.body = body])
            /\ IF ManifestOk(st)
                 THEN /\ manifests' = Append(manifests,
                             [repo |-> Repo(w), tag |-> tag, body |-> body])
                      /\ ti' = [ti EXCEPT ![w] = @ + 1]
                      /\ pc' = [pc EXCEPT ![w] = "tag"]
                      /\ UNCHANGED unwind
                 ELSE /\ Raise(w, <<"Failed to push manifest", EImage>>)
                      /\ UNCHANGED <<manifests, ti>>
    /\ UNCHANGED <<inputs, printed, mainv, queue, result, first_error, lockv, blobs,
                   img, li, lk, up, linfo, cinfo, sawNone>>

\* ------------------------------------------------- errors and the logger
\* _VariableLogging.error, line 96: if self.manager.first_error is None
ErrorCheck(w) ==
    /\ pc[w] = "unwind"
    /\ unwind[w] # <<>>
    /\ Head(unwind[w]) # REL
    /\ sawNone' = [sawNone EXCEPT ![w] = (first_error = NoErr)]
    /\ pc' = [pc EXCEPT ![w] = "err_set"]
    /\ UNCHANGED <<inputs, printed, mainv, queue, result, first_error, lockv, regv, reqs,
                   img, ti, li, lk, up, linfo, cinfo, unwind>>

\* _VariableLogging.error, line 97: the assignment, when the test passed;
\* then log_and_raise raises
ErrorSet(w) ==
    /\ pc[w] = "err_set"
    /\ first_error' = IF sawNone[w] THEN [msg |-> Head(unwind[w]), img |-> img[w]]
                       ELSE first_error
    /\ unwind' = [unwind EXCEPT ![w] = Tail(@)]
    /\ sawNone' = [sawNone EXCEPT ![w] = FALSE]
    /\ pc' = [pc EXCEPT ![w] = "unwind"]
    /\ UNCHANGED <<inputs, printed, mainv, queue, result, lockv, regv, reqs,
                   img, ti, li, lk, up, linfo, cinfo>>

\* the exception leaves the task: its AsyncResult holds it
TaskFail(w) ==
    /\ pc[w] = "unwind"
    /\ unwind[w] = <<>>
    /\ result' = [result EXCEPT ![img[w]] = "failed"]
    /\ pc' = [pc EXCEPT ![w] = "idle"]
    /\ img' = [img EXCEPT ![w] = 0]
    /\ ti' = [ti EXCEPT ![w] = 0]
    /\ li' = [li EXCEPT ![w] = 0]
    /\ lk' = [lk EXCEPT ![w] = 0]
    /\ up' = [up EXCEPT ![w] = UpIdle]
    /\ linfo' = [linfo EXCEPT ![w] = <<>>]
    /\ cinfo' = [cinfo EXCEPT ![w] = NoInfo]
    /\ UNCHANGED <<inputs, printed, mainv, queue, first_error, lockv, regv, reqs, unwind, sawNone>>

\* ------------------------------------------------------- specification
Next ==
    \/ Mkdir
    \/ ExtractAll
    \/ GetManifest
    \/ ApplyAsync
    \/ Join
    \/ Collect
    \/ Finally
    \/ \E w \in Workers :
         \/ TakeTask(w)
         \/ LoadConfig(w)
         \/ BeginTag(w)
         \/ TaskDone(w)
         \/ GetLockEnter(w)
         \/ GetLockReturn(w)
         \/ Acquire(w)
         \/ ProbeLayer(w)
         \/ InitializePush(w)
         \/ SendChunk(w)
         \/ UploadReturn(w)
         \/ Release(w)
         \/ PushManifest(w)
         \/ ErrorCheck(w)
         \/ ErrorSet(w)
         \/ TaskFail(w)

Spec == Init /\ [][Next]_vars

LockSpec == LockInit /\ [][Next]_vars

\* nothing is under way: no pool, no task, an empty lock table, no
\* request sent, the recompression stage not called
Quiet ==
    /\ override = "none"
    /\ preload = {}
    /\ dirExists = FALSE
    /\ queue = <<>>
    /\ result = [i \in 1..NImages |-> "none"]
    /\ ci = 0
    /\ mainExc = NoExc
    /\ exitStatus = -1
    /\ outside = FALSE
    /\ first_error = NoErr
    /\ global_lock = 0
    /\ layers_locks = [k \in {} |-> 0]
    /\ held = <<>>
    /\ blobs = {}
    /\ manifests = <<>>
    /\ faults = 0
    /\ pc = [w \in Workers |-> "idle"]
    /\ img = [w \in Workers |-> 0]
    /\ ti = [w \in Workers |-> 0]
    /\ li = [w \in Workers |-> 0]
    /\ lk = [w \in Workers |-> 0]
    /\ up = [w \in Workers |-> UpIdle]
    /\ linfo = [w \in Workers |-> <<>>]
    /\ cinfo = [w \in Workers |-> NoInfo]
    /\ unwind = [w \in Workers |-> <<>>]
    /\ sawNone = [w \in Workers |-> FALSE]
    /\ reqs = [i \in 1..NImages |-> <<>>]
    /\ gzip_layers = FALSE
    /\ extracted = TreeNone
    /\ tree = TreeNone.tree
    /\ manifest_json = TreeNone.manifest
    /\ config_json = TreeNone.config
    /\ prepc = "off"
    /\ ptodo = {}
    /\ pdirs = {}
    /\ pfound = {}
    /\ pqueue = <<>>
    /\ ptask = NoTasks
    /\ f_in = NoFiles
    /\ f_out = NoFiles
    /\ printed = FALSE

\* ------------------------------------------- the program, from __main__
\* python dockerregistrypusher.py ARCHIVE_PATH REGISTRY_URL with the
\* options register_arguments knows: --stream, --replace-tags-match,
\* --replace-tags-target
RunInit ==
    /\ arch \in Archives
    /\ replace_tags_match \in {NoOption, MatchOne}
    /\ replace_tags_target \in {NoOption, TargetV2}
    /\ stream \in BOOLEAN
    /\ par = 1
    /\ mainpc = "run"
    /\ Quiet

RunNext ==
    \/ Run
    \/ Exit

RunSpec == RunInit /\ [][RunNext]_vars

\* ------------------------------------------- the logger, called directly
\* by the threads of Workers; the messages logged
LoggerMessages == {"A", "B", "E"}

\* a thread calls logger.error(msg)
LoggerError(w, msg) ==
    /\ mainpc = "logger"
    /\ w <= par
    /\ pc[w] = "idle"
    /\ pc' = [pc EXCEPT ![w] = "unwind"]
    /\ unwind' = [unwind EXCEPT ![w] = <<msg>>]
    /\ UNCHANGED <<inputs, printed, mainv, queue, result, first_error, lockv, regv, reqs,
                   img, ti, li, lk, up, linfo, cinfo, sawNone>>

\* logger.error(msg) returns to its caller
LoggerReturn(w) ==
    /\ mainpc = "logger"
    /\ pc[w] = "unwind"
    /\ unwind[w] = <<>>
    /\ pc' = [pc EXCEPT ![w] = "idle"]
    /\ UNCHANGED <<inputs, printed, mainv, queue, result, first_error, lockv, regv, reqs,
                   img, ti, li, lk, up, linfo, cinfo, unwind, sawNone>>

\* _VariableLogging.clear_first_error: self.manager.first_error = None
\* (the manager has the attribute from the first logger's __init__ on);
\* nothing in the program calls it
ClearFirstError ==
    /\ mainpc = "logger"
    /\ first_error' = NoErr
    /\ UNCHANGED <<inputs, printed, mainv, queue, result, lockv, regv, wkv, reqs>>

LoggerInit ==
    /\ arch = ArchNotTar
    /\ replace_tags_match = NoOption
    /\ replace_tags_target = NoOption
    /\ stream = FALSE
    /\ par = MaxParallel
    /\ mainpc = "logger"
    /\ Quiet

LoggerNext ==
    \/ ClearFirstError
    \/ \E w \in Workers :
         \/ \E msg \in LoggerMessages : LoggerError(w, msg)
         \/ ErrorCheck(w)
         \/ ErrorSet(w)
         \/ LoggerReturn(w)

LoggerSpec == LoggerInit /\ [][LoggerNext]_vars

\* the threads run: the main thread and the threads of the pool are
\* scheduled by the interpreter, and every registry request returns
FairSpec == Spec /\ WF_vars(Next)

\* ------------------------------ Processor._pre_process_contents(root_dir)
\* os.path.islink(path)
IsLink(t, q) == t[q].kind = "link"

\* what open(path) reads and os.path.exists(path) tests: the node a path
\* leads to, through a symbolic link if it is one
Resolve(t, q) ==
    IF t[q].kind = "link"
    THEN (IF t[q].target \in PrePaths THEN t[t[q].target] ELSE NoNode)
    ELSE t[q]

\* os.path.exists(path)
Exists(t, q) == Resolve(t, q).kind = "file"

\* _compress_layer: os.path.exists(gzipped_file_path)
AlreadyGzipped(t, q) == Exists(t, AddExt(q, GzipExt))

\* layer.endswith('.tar'), rglob('*.tar')
EndsWithTar(q) == q.ext = ".tar"

\* target_path.endswith('layer.tar')
EndsWithLayerTar(q) == q.stem = "layer" /\ q.ext = ".tar"

\* the directories under root_dir
PreDirs == {q.dir : q \in PrePaths}

\* pathlib.Path(root_dir).rglob('*.tar') on reaching directory d: the
\* entries of d, as scandir lists them at that moment, that match
RglobTar(t, d) == {q \in PrePaths : q.dir = d /\ EndsWithTar(q) /\ t[q].kind # "none"}

\* the file open(path) opens: the path itself, or the target of the
\* symbolic link it is
RealPath(t, q) == IF t[q].kind = "link" THEN t[q].target ELSE q

\* f with its entry for q dropped
Closed(f, q) == [x \in DOMAIN f \ {q} |-> f[x]]

\* the task of a path is in a pool thread, between the call of
\* _compress_layer and its return
Running(q) ==
    ptask[q] \in {"called", "notgz", "kind", "open", "gzopen", "lines", "gzclosed", "written"}

\* the Layers left as they are
KeepLayers(layers) == layers

\* _update_manifests: the Layers of one image section
UpdateLayers(layers) ==
    [i \in 1..Len(layers) |->
        IF EndsWithTar(layers[i]) THEN AddExt(layers[i], GzipExt) ELSE layers[i]]

\* _update_manifests: image_config as it is when the loop over the layers
\* is over; the assignment to rootfs.diff_ids is commented out (290-292)
UpdateConfig(cfg, layers, t) == cfg

\* the call: if not self._gzip_layers: return
PreProcessContents ==
    /\ prepc = "call"
    /\ IF gzip_layers
         THEN /\ prepc' = "symlinks"
              /\ ptodo' = {q \in PrePaths : tree[q].kind # "none"}
         ELSE /\ prepc' = "returned"
              /\ UNCHANGED ptodo
    /\ UNCHANGED <<pushv, tree, manifest_json, config_json, rglobv, pqueue, ptask, filev>>

\* _correct_symlinks, one file of os.walk: for a link whose target ends
\* in layer.tar, os.symlink(new_target_path, tmp_link_path); any other
\* file is passed over
CorrectSymlinks(q) ==
    /\ prepc = "symlinks"
    /\ q \in ptodo
    /\ IF IsLink(tree, q) /\ EndsWithLayerTar(tree[q].target)
         THEN /\ tree' = [tree EXCEPT
                            ![TmpLink(q)] = Link(AddExt(tree[q].target, GzipExt))]
              /\ prepc' = "unlink"
              /\ UNCHANGED ptodo
         ELSE /\ ptodo' = ptodo \ {q}
              /\ UNCHANGED <<tree, prepc>>
    /\ UNCHANGED <<pushv, manifest_json, config_json, rglobv, pqueue, ptask, filev>>

\* _correct_symlinks: os.unlink(path), for the file whose temporary link
\* has just been made
UnlinkPath(q) ==
    /\ prepc = "unlink"
    /\ q \in ptodo
    /\ TmpLink(q) \in PrePaths
    /\ IsLink(tree, TmpLink(q))
    /\ tree' = [tree EXCEPT ![q] = NoNode]
    /\ prepc' = "rename"
    /\ UNCHANGED <<pushv, manifest_json, config_json, ptodo, rglobv, pqueue, ptask, filev>>

\* _correct_symlinks: os.rename(tmp_link_path, path); the walk goes on
RenameTmpLink(q) ==
    /\ prepc = "rename"
    /\ q \in ptodo
    /\ TmpLink(q) \in PrePaths
    /\ IsLink(tree, TmpLink(q))
    /\ tree' = [tree EXCEPT ![q] = tree[TmpLink(q)], ![TmpLink(q)] = NoNode]
    /\ ptodo' = ptodo \ {q}
    /\ prepc' = "symlinks"
    /\ UNCHANGED <<pushv, manifest_json, config_json, rglobv, pqueue, ptask, filev>>

\* _compress_layers, the main thread between the passes: the first pass
\* begins after the walk; a pass ends when rglob is exhausted and
\* pool.join() has returned, its results are read (a task that raised is
\* re-raised by res.get()) and the next pass begins with a new pool and a
\* new rglob, which has listed nothing yet
CompressLayers ==
    /\ \/ prepc = "symlinks" /\ ptodo = {}
       \/ prepc \in {"pass1", "pass2"}
    /\ pdirs = {} /\ pfound = {} /\ pqueue = <<>>
    /\ \A q \in PrePaths : ptask[q] \in {"none", "done", "raised"}
    /\ IF \E q \in PrePaths : ptask[q] = "raised"
         THEN prepc' = "raised" /\ UNCHANGED <<ptask, pdirs>>
         ELSE IF prepc = "pass2"
         THEN prepc' = "update" /\ ptask' = NoTasks /\ UNCHANGED pdirs
         ELSE /\ prepc' = IF prepc = "symlinks" THEN "pass1" ELSE "pass2"
              /\ ptask' = NoTasks
              /\ pdirs' = PreDirs
    /\ UNCHANGED <<pushv, tree, manifest_json, config_json, ptodo, pfound, pqueue, filev>>

\* rglob('*.tar') goes on to a directory (in the order scandir gave them)
\* when the paths of the one before are all yielded, and lists it
RglobScan(d) ==
    /\ prepc \in {"pass1", "pass2"}
    /\ pfound = {}
    /\ d \in pdirs
    /\ pdirs' = pdirs \ {d}
    /\ pfound' = RglobTar(tree, d)
    /\ UNCHANGED <<pushv, tree, manifest_json, config_json, prepc, ptodo, pqueue, ptask, filev>>

\* _compress_layers, one turn of the loop: rglob yields a path and
\* pool.apply_async hands its task to the pool, whose threads are running
CompressAsync(q) ==
    /\ prepc \in {"pass1", "pass2"}
    /\ q \in pfound
    /\ pfound' = pfound \ {q}
    /\ pqueue' = Append(pqueue, q)
    /\ ptask' = [ptask EXCEPT ![q] = "queued"]
    /\ UNCHANGED <<pushv, tree, manifest_json, config_json, prepc, ptodo, pdirs, filev>>

\* a free thread of the pool takes the oldest task and calls
\* _compress_layer
CompressLayer(q) ==
    /\ pqueue # <<>>
    /\ q = Head(pqueue)
    /\ Cardinality({x \in PrePaths : Running(x)}) < par
    /\ pqueue' = Tail(pqueue)
    /\ ptask' = [ptask EXCEPT ![q] = "called"]
    /\ UNCHANGED <<pushv, tree, manifest_json, config_json, prepc, ptodo, rglobv, filev>>

\* _compress_layer: if os.path.exists(gzipped_file_path): return
TestGzipped(q) ==
    /\ ptask[q] = "called"
    /\ ptask' = [ptask EXCEPT ![q] = IF AlreadyGzipped(tree, q) THEN "done" ELSE "notgz"]
    /\ UNCHANGED <<pushv, tree, manifest_json, config_json, prepc, ptodo, rglobv, pqueue, filev>>

\* _compress_layer: if os.path.islink(file_path) != compress_symlinks:
\* return
TestIsLink(q) ==
    /\ ptask[q] = "notgz"
    /\ ptask' = [ptask EXCEPT ![q] =
                    IF IsLink(tree, q) # (prepc = "pass2") THEN "done" ELSE "kind"]
    /\ UNCHANGED <<pushv, tree, manifest_json, config_json, prepc, ptodo, rglobv, pqueue, filev>>

\* _compress_layer: open(file_path, 'rb'); when the path leads to no
\* file the exception passes the handler (which lists the directory for
\* the debug log) and leaves the task
OpenLayer(q) ==
    /\ ptask[q] = "kind"
    /\ IF Resolve(tree, q).kind = "file"
         THEN /\ f_in' = (q :> RealPath(tree, q)) @@ f_in
              /\ ptask' = [ptask EXCEPT ![q] = "open"]
         ELSE /\ ptask' = [ptask EXCEPT ![q] = "raised"]
              /\ UNCHANGED f_in
    /\ UNCHANGED <<pushv, tree, manifest_json, config_json, prepc, ptodo, rglobv, pqueue, f_out>>

\* _compress_layer: gzip.open(gzipped_file_path, 'wb') creates the file,
\* empty; the header is in the buffer of f_out
GzipOpen(q) ==
    /\ ptask[q] = "open"
    /\ tree' = [tree EXCEPT ![AddExt(q, GzipExt)] = File(<<>>)]
    /\ f_out' = (q :> Gzip(<<>>)) @@ f_out
    /\ ptask' = [ptask EXCEPT ![q] = "gzopen"]
    /\ UNCHANGED <<pushv, manifest_json, config_json, prepc, ptodo, rglobv, pqueue, f_in>>

\* _compress_layer: f_out.writelines(f_in) reads the open file and
\* compresses into the buffer
WriteLines(q) ==
    /\ ptask[q] = "gzopen"
    /\ f_out' = [f_out EXCEPT ![q] = Gzip(tree[f_in[q]].bytes)]
    /\ ptask' = [ptask EXCEPT ![q] = "lines"]
    /\ UNCHANGED <<pushv, tree, manifest_json, config_json, prepc, ptodo, rglobv, pqueue, f_in>>

\* _compress_layer, the end of the with block, first exit: f_out is
\* closed, which writes the buffer to the .gz
GzipClose(q) ==
    /\ ptask[q] = "lines"
    /\ tree' = [tree EXCEPT ![AddExt(q, GzipExt)] = File(f_out[q])]
    /\ f_out' = Closed(f_out, q)
    /\ ptask' = [ptask EXCEPT ![q] = "gzclosed"]
    /\ UNCHANGED <<pushv, manifest_json, config_json, prepc, ptodo, rglobv, pqueue, f_in>>

\* _compress_layer, the end of the with block, second exit: f_in is
\* closed
LayerClose(q) ==
    /\ ptask[q] = "gzclosed"
    /\ f_in' = Closed(f_in, q)
    /\ ptask' = [ptask EXCEPT ![q] = "written"]
    /\ UNCHANGED <<pushv, tree, manifest_json, config_json, prepc, ptodo, rglobv, pqueue, f_out>>

\* _compress_layer: os.remove(file_path), and the return
RemoveLayer(q) ==
    /\ ptask[q] = "written"
    /\ tree' = [tree EXCEPT ![q] = NoNode]
    /\ ptask' = [ptask EXCEPT ![q] = "done"]
    /\ UNCHANGED <<pushv, prepc, manifest_json, config_json, ptodo, rglobv, pqueue, filev>>

\* _update_manifests: the Layers of every image section rewritten,
\* manifest.json written back; the image config is not written
UpdateManifests ==
    /\ prepc = "update"
    /\ manifest_json' = [i \in 1..Len(manifest_json) |->
                            [manifest_json[i] EXCEPT !.Layers = UpdateLayers(@)]]
    /\ config_json' = UpdateConfig(config_json, manifest_json[1].Layers, tree)
    /\ prepc' = "done"
    /\ UNCHANGED <<pushv, tree, ptodo, rglobv, pqueue, ptask, filev>>

\* _pre_process_contents is called on an extracted archive
PreInit ==
    /\ arch = ArchNotTar
    /\ par \in 1..MaxParallel
    /\ override = "none"
    /\ preload = {}
    /\ replace_tags_match = NoOption
    /\ replace_tags_target = NoOption
    /\ mainpc = "extracted"
    /\ dirExists = TRUE
    /\ queue = <<>>
    /\ result = <<>>
    /\ ci = 0
    /\ mainExc = NoExc
    /\ exitStatus = -1
    /\ outside = FALSE
    /\ first_error = NoErr
    /\ global_lock = 0
    /\ layers_locks = [k \in {} |-> 0]
    /\ held = <<>>
    /\ blobs = {}
    /\ manifests = <<>>
    /\ faults = 0
    /\ pc = [w \in Workers |-> "idle"]
    /\ img = [w \in Workers |-> 0]
    /\ ti = [w \in Workers |-> 0]
    /\ li = [w \in Workers |-> 0]
    /\ lk = [w \in Workers |-> 0]
    /\ up = [w \in Workers |-> UpIdle]
    /\ linfo = [w \in Workers |-> <<>>]
    /\ cinfo = [w \in Workers |-> NoInfo]
    /\ unwind = [w \in Workers |-> <<>>]
    /\ sawNone = [w \in Workers |-> FALSE]
    /\ reqs = <<>>
    /\ gzip_layers \in BOOLEAN
    /\ extracted \in ExtractedTrees
    /\ tree = extracted.tree
    /\ manifest_json = extracted.manifest
    /\ config_json = extracted.config
    /\ prepc = "call"
    /\ ptodo = {}
    /\ pdirs = {}
    /\ pfound = {}
    /\ pqueue = <<>>
    /\ ptask = NoTasks
    /\ f_in = NoFiles
    /\ f_out = NoFiles
    /\ stream = FALSE
    /\ printed = FALSE

PreNext ==
    \/ PreProcessContents
    \/ CompressLayers
    \/ UpdateManifests
    \/ \E d \in PreDirs : RglobScan(d)
    \/ \E q \in PrePaths :
         \/ CorrectSymlinks(q)
         \/ UnlinkPath(q)
         \/ RenameTmpLink(q)
         \/ CompressAsync(q)
         \/ CompressLayer(q)
         \/ TestGzipped(q)
         \/ TestIsLink(q)
         \/ OpenLayer(q)
         \/ GzipOpen(q)
         \/ WriteLines(q)
         \/ GzipClose(q)
         \/ LayerClose(q)
         \/ RemoveLayer(q)

PreSpec == PreInit /\ [][PreNext]_vars

\* ------------------------------------------------------------ properties
Range(f) == {f[x] : x \in DOMAIN f}
Finished == mainpc \in {"returned", "raised", "exit"}

\* the pool thread is between acquire() and release() in _process_layer
Holding(w) ==
    \/ pc[w] \in {"probe", "post", "rel_gl", "rel_gl2", "rel"}
    \/ pc[w] = "chunk" /\ up[w].kind = "layer"
    \/ pc[w] \in {"unwind", "err_set"} /\ REL \in Range(unwind[w])

\* C1: lock exclusion - two pool threads that are both between acquiring
\* and releasing a layer lock in _process_layer work on different keys
LockExclusion ==
    \A w1, w2 \in Workers :
        (w1 # w2 /\ Holding(w1) /\ Holding(w2))
            => LayerKey(Layer(w1)) # LayerKey(Layer(w2))

\* a thread uploads a layer while another waits in acquire() for its key
LockExclusionWitness ==
    \E w1, w2 \in Workers :
        /\ w1 # w2
        /\ pc[w1] = "chunk" /\ up[w1].kind = "layer"
        /\ pc[w2] = "acquire"
        /\ LayerKey(Layer(w1)) = LayerKey(Layer(w2))

\* the layer paths listed by two ImageEntries
SharedLayers ==
    {p \in AllPaths : \E i, j \in 1..NImages :
        i # j /\ p \in Range(arch.images[i].Layers) /\ p \in Range(arch.images[j].Layers)}

\* the POST /blobs/uploads/ requests issued for layer path p
LayerPosts(p) ==
    {x \in UNION {{<<i, k>> : k \in 1..Len(reqs[i])} : i \in 1..NImages} :
        LET r == reqs[x[1]][x[2]]
        IN r.m = "POST" /\ r.kind = "layer" /\ arch.images[x[1]].Layers[r.li] = p}

\* C2: dedup - after a run against a registry that was empty, in which no
\* answer deviated and every image was pushed, exactly one POST was issued
\* for each layer path that two ImageEntries share
DedupOnePost ==
    (mainpc = "returned" /\ faults = 0 /\ preload = {})
        => \A p \in SharedLayers : Cardinality(LayerPosts(p)) = 1

\* entry q of image i's requests confirms layer l for tag position t
Confirms(i, q, t, l) ==
    LET r == reqs[i][q]
    IN /\ r.kind = "layer" /\ r.ti = t /\ r.li = l
       /\ (r.m = "HEAD" /\ r.st = 200) \/ (r.m = "PUT" /\ r.st = 201)

LayersConfirmedBefore(i, p, t) ==
    \A l \in 1..Len(arch.images[i].Layers) : \E q \in 1..(p - 1) : Confirms(i, q, t, l)

\* C3: ordering within an image - a manifest PUT comes after a HEAD 200 or
\* a PUT 201 for every layer and after the PUT 201 of the config upload of
\* the same tag, and the config POST comes after every layer is confirmed
OrderingWithinImage ==
    \A i \in 1..NImages : \A p \in 1..Len(reqs[i]) :
        LET r == reqs[i][p] IN
        /\ (r.m = "PUT" /\ r.kind = "manifest") =>
              /\ LayersConfirmedBefore(i, p, r.ti)
              /\ \E q \in 1..(p - 1) :
                    /\ reqs[i][q].kind = "config" /\ reqs[i][q].ti = r.ti
                    /\ reqs[i][q].m = "PUT" /\ reqs[i][q].st = 201
        /\ (r.m = "POST" /\ r.kind = "config") => LayersConfirmedBefore(i, p, r.ti)

\* C4 as claimed: working-directory cleanup - once process() has returned
\* or raised, the working directory path does not exist
WorkdirGone == Finished => ~dirExists

\* C4 amended: once process() has returned or raised in a run in which it
\* created the working directory (mkdtemp, or an override path that was
\* free), the working directory does not exist
WorkdirGoneIfCreated == (Finished /\ override # "exists") => ~dirExists

\* process() raised a worker's failure with an override directory
WorkdirGoneWitness ==
    /\ mainpc = "raised" /\ mainExc.kind = "worker"
    /\ override = "fresh" /\ ~dirExists

\* C5: chunked upload post-conditions - when _chunked_upload has returned,
\* the bytes sent in PATCH/PUT bodies are the file's size, and the digest
\* the registry answered on the completing PUT is the digest of the
\* bytes sent, which are the file's
ChunkedUploadPost ==
    \A w \in Workers : up[w].state = "returned" =>
        /\ up[w].sent = Len(FileBytes(up[w].path))
        /\ up[w].total_pushed_size = up[w].sent
        /\ \A k \in 1..Len(reqs[img[w]]) :
             LET r == reqs[img[w]][k] IN
             (r.m = "PUT" /\ r.kind = up[w].kind /\ r.ti = ti[w] /\ r.li = up[w].li) =>
                 /\ r.st = 201
                 /\ r.rdg = Sha256(up[w].sha)
                 /\ up[w].sha = FileBytes(up[w].path)
                 /\ up[w].response_digest = r.rdg

\* an upload of several chunks has returned
ChunkedUploadPostWitness ==
    \E w \in Workers :
        /\ up[w].state = "returned" /\ up[w].nput = 1
        /\ up[w].total_size > ChunkSize

\* C6: drain before reporting - when process() raises a worker's failure,
\* and at the end of every run that reached dispatch, every image of
\* manifest.json has been processed to its end (succeeded or failed)
DrainBeforeReport ==
    /\ mainExc.kind = "worker" => \A i \in 1..NImages : result[i] \in {"ok", "failed"}
    /\ (Finished /\ mainExc.kind \in {"none", "worker"})
          => \A i \in 1..NImages : result[i] \in {"ok", "failed"}

\* the first image failed, a later one was still pushed to its end
DrainBeforeReportWitness ==
    /\ mainpc = "raised" /\ mainExc = [kind |-> "worker", img |-> 1]
    /\ NImages >= 2 /\ result[2] = "ok"
    /\ \E k \in 1..Len(reqs[2]) : reqs[2][k].kind = "manifest" /\ reqs[2][k].st = 201

\* C7: first-error reporting - once set, first_error is never overwritten
\* by a later error
FirstErrorKept == [][first_error # NoErr => first_error' = first_error]_vars

\* C8: exit status - when the program has ended, its exit status is
\* non-zero iff an error was recorded in first_error; a run in which no
\* error was recorded exits with 0
ExitNonZeroIffError ==
    mainpc = "exit" => ((exitStatus # 0) <=> (first_error # NoErr))

\* an upload request answered with a status that is fatal
Fatal(r) ==
    \/ r.m = "POST" /\ r.st # 202
    \/ r.m = "PATCH" /\ r.st # 202
    \/ r.m = "PUT" /\ r.st # 201

\* C9: fail-stop without retry - a POST or PATCH not answered 202, or a
\* completing PUT or manifest PUT not answered 201, is the last request
\* issued for its image, and the image does not succeed: it has failed
\* when the pool is joined
FailStop ==
    \A i \in 1..NImages : \A k \in 1..Len(reqs[i]) :
        Fatal(reqs[i][k]) =>
            /\ k = Len(reqs[i])
            /\ result[i] # "ok"
            /\ mainpc \in {"collect", "finally", "returned", "raised", "exit"}
                  => result[i] = "failed"

\* the completing PUT of a layer was answered 400 and the image failed
FailStopWitness ==
    \E i \in 1..NImages :
        /\ result[i] = "failed" /\ reqs[i] # <<>>
        /\ LET r == reqs[i][Len(reqs[i])]
           IN r.m = "PUT" /\ r.kind = "layer" /\ r.st = 400

\* the requests that upload: POST, PATCH and the completing PUT
IsUpload(r) == r.m \in {"POST", "PATCH", "PUT"}

\* C10: HEAD short-circuit - after HEAD 200 no POST, PATCH or PUT is issued
\* for that layer and the (digest, size) entered in manifest_layer_info
\* are the answer's Docker-Content-Digest and Content-Length; after any
\* other status the next request is the POST that starts the upload
HeadShortCircuit ==
    \A i \in 1..NImages : \A k \in 1..Len(reqs[i]) :
        LET r == reqs[i][k] IN
        r.m = "HEAD" =>
            /\ r.st = 200 =>
                  /\ \A q \in 1..Len(reqs[i]) :
                        LET s == reqs[i][q] IN
                        ~(IsUpload(s) /\ s.kind = "layer" /\ s.ti = r.ti /\ s.li = r.li)
                  /\ \A w \in Workers :
                        (img[w] = i /\ ti[w] = r.ti /\ Len(linfo[w]) >= r.li) =>
                            /\ linfo[w][r.li].digest = r.rdg
                            /\ linfo[w][r.li].size = r.rsize
            /\ r.st \notin {200, 0} =>
                  IF k < Len(reqs[i])
                  THEN LET s == reqs[i][k + 1]
                       IN s.m = "POST" /\ s.kind = "layer" /\ s.ti = r.ti /\ s.li = r.li
                  ELSE \E w \in Workers : img[w] = i /\ pc[w] = "post"

\* a layer was found by HEAD and the image went on to its config upload
HeadShortCircuitWitness ==
    \E i \in 1..NImages : \E k \in 1..Len(reqs[i]) :
        /\ reqs[i][k].m = "HEAD" /\ reqs[i][k].st = 200
        /\ k < Len(reqs[i])
        /\ reqs[i][k + 1].m = "POST" /\ reqs[i][k + 1].kind = "config"

\* C11: per-layer idempotence - when _process_layer probes a layer whose
\* blob the repository already holds (uploaded earlier in the run or by an
\* earlier push) and the registry answers as it should, the HEAD is the
\* only request: the thread goes straight to the release of the lock, no
\* upload is set up, and the (digest, size) entered are those of the file,
\* which are what the upload yielded
LayerIdempotent ==
    [][\A w \in Workers :
         (/\ pc[w] = "probe" /\ pc'[w] # "probe"
          /\ FileExists(Layer(w))
          /\ InRepo(Repo(w), GetDigest(Layer(w))) # {}
          /\ faults' = faults)
         => /\ pc'[w] = "rel_gl"
            /\ up'[w] = up[w]
            /\ Len(reqs'[img[w]]) = Len(reqs[img[w]]) + 1
            /\ LET r == reqs'[img[w]][Len(reqs'[img[w]])]
               IN r.m = "HEAD" /\ r.st = 200 /\ r.repo = Repo(w)
            /\ linfo'[w] = Append(linfo[w],
                   [digest |-> GetDigest(Layer(w)), size |-> Len(FileBytes(Layer(w))),
                    ext |-> Layer(w).ext])]_vars

\* a layer uploaded for one image was found by the HEAD of another image
\* of the same repository, and by the HEAD of a second tag of its own image
LayerIdempotentWitness ==
    /\ preload = {}
    /\ \E i, j \in 1..NImages : \E k \in 1..Len(reqs[i]) : \E q \in 1..Len(reqs[j]) :
         LET u == reqs[i][k]
             h == reqs[j][q]
         IN /\ u.m = "PUT" /\ u.kind = "layer" /\ u.st = 201
            /\ h.m = "HEAD" /\ h.st = 200 /\ h.repo = u.repo /\ h.dg = u.dg
            /\ h.rdg = u.rdg /\ h.rsize = Len(u.dg.hex)
            /\ (i # j \/ (k < q /\ u.ti < h.ti))

IsManifestPut(r) == r.m = "PUT" /\ r.kind = "manifest"

\* the manifest PUTs issued for image i, in the order issued
ManifestPuts(i) == SelectSeq(reqs[i], IsManifestPut)

\* C12: one manifest per tag - an image whose process_image succeeded has
\* issued as many manifest PUTs as it has RepoTags entries, the k-th for
\* the image name of the k-th entry and for its tag or the tag it was
\* rewritten to, each with the manifest v2 Content-Type
OneManifestPerTag ==
    \A i \in 1..NImages : result[i] = "ok" =>
        LET ms == ManifestPuts(i)
            tags == arch.images[i].RepoTags
        IN /\ Len(ms) = Len(tags)
           /\ \A k \in 1..Len(ms) :
                 /\ ms[k].ti = k
                 /\ ms[k].repo = tags[k][1]
                 /\ ms[k].tag \in {tags[k][2], replace_tags_target.text}
                 /\ ms[k].ctype = ManifestContentType

\* an image with two tags was pushed, the first tag rewritten and the
\* second not
OneManifestPerTagWitness ==
    \E i \in 1..NImages :
        /\ result[i] = "ok" /\ Len(arch.images[i].RepoTags) = 2
        /\ Len(ManifestPuts(i)) = 2
        /\ ManifestPuts(i)[1].tag = "v2" /\ ManifestPuts(i)[2].tag = "2"

\* C13: manifest consistency - the body of every manifest PUT the registry
\* accepted lists one descriptor per entry of Layers, in order, with the
\* sha256 digest and the size of the local layer file, and a config
\* descriptor with the digest and size of the image-config file
ManifestConsistent ==
    \A i \in 1..NImages : \A k \in 1..Len(reqs[i]) :
        LET r == reqs[i][k]
            ls == arch.images[i].Layers
            cfg == arch.images[i].Config
        IN (IsManifestPut(r) /\ r.st = 201) =>
              /\ Len(r.body.layers) = Len(ls)
              /\ \A l \in 1..Len(ls) :
                    /\ r.body.layers[l].digest = Sha256(FileBytes(ls[l]))
                    /\ r.body.layers[l].size = Len(FileBytes(ls[l]))
              /\ r.body.config.digest = Sha256(FileBytes(cfg))
              /\ r.body.config.size = Len(FileBytes(cfg))

\* C14: layer media type - in the body of every manifest PUT, the
\* descriptor of a layer whose file name ends in .gz or .gzip has the
\* tar.gzip media type, and that of any other layer the tar media type
LayerMediaType ==
    \A i \in 1..NImages : \A k \in 1..Len(reqs[i]) :
        LET r == reqs[i][k]
            ls == arch.images[i].Layers
        IN IsManifestPut(r) =>
              \A l \in 1..Len(r.body.layers) :
                  r.body.layers[l].mediaType =
                      IF ls[l].ext \in {".gz", ".gzip"} THEN TarGzip ELSE TarPlain

\* C15: tag rewriting - the tag of a manifest PUT is replace_tags_target
\* exactly when both options are configured and the expression matches
\* the tag parsed from the RepoTags entry; otherwise it is that tag
TagRewriteIff ==
    \A i \in 1..NImages : \A k \in 1..Len(reqs[i]) :
        LET r == reqs[i][k]
            orig == arch.images[i].RepoTags[r.ti][2]
        IN IsManifestPut(r) =>
              r.tag = IF /\ replace_tags_match.given /\ replace_tags_target.given
                         /\ orig \in replace_tags_match.hits
                      THEN replace_tags_target.text
                      ELSE orig

\* a request without the parts the tag options and the registry's choice
\* of upload URLs may touch
Erase(r) == [r EXCEPT !.tag = "", !.url = 0, !.rloc = 0]

ExpReq(repo, m, kind, t, l, st) ==
    [m |-> m, repo |-> repo, kind |-> kind, ti |-> t, li |-> l, st |-> st,
     start |-> 0, end |-> 0, clen |-> 0, url |-> 0, rloc |-> 0,
     dg |-> NoDigest, rdg |-> NoDigest, rsize |-> 0, tag |-> "", ctype |-> "",
     body |-> <<>>]

\* the PATCH and PUT requests that carry bytes from position pos on
RECURSIVE ExpChunks(_, _, _, _, _, _)
ExpChunks(repo, kind, t, l, bytes, pos) ==
    IF pos >= Len(bytes) THEN <<>>
    ELSE LET n == Min(ChunkSize, Len(bytes) - pos) IN
         IF pos + n = Len(bytes)
         THEN << [ExpReq(repo, "PUT", kind, t, l, 201) EXCEPT
                     !.start = pos, !.end = pos + n, !.clen = n,
                     !.dg = Sha256(bytes), !.rdg = Sha256(bytes)] >>
         ELSE << [ExpReq(repo, "PATCH", kind, t, l, 202) EXCEPT
                     !.start = pos, !.end = pos + n, !.clen = n] >>
              \o ExpChunks(repo, kind, t, l, bytes, pos + n)

ExpUpload(repo, kind, t, l, bytes) ==
    <<ExpReq(repo, "POST", kind, t, l, 202)>> \o ExpChunks(repo, kind, t, l, bytes, 0)

\* the requests for layers l.. of tag position t: uploaded for the first
\* tag, found by HEAD for the later ones
RECURSIVE ExpLayers(_, _, _, _)
ExpLayers(repo, t, layers, l) ==
    IF l > Len(layers) THEN <<>>
    ELSE LET bytes == FileBytes(layers[l])
             head(st) == [ExpReq(repo, "HEAD", "layer", t, l, st) EXCEPT !.dg = Sha256(bytes)]
         IN (IF t = 1
             THEN <<head(404)>> \o ExpUpload(repo, "layer", t, l, bytes)
             ELSE << [head(200) EXCEPT !.rdg = Sha256(bytes), !.rsize = Len(bytes)] >>)
            \o ExpLayers(repo, t, layers, l + 1)

\* the requests for tag positions t.. of an image whose tags name one
\* repository, pushed to a registry that was empty and answers as it should
RECURSIVE ExpTags(_, _)
ExpTags(image, t) ==
    IF t > Len(image.RepoTags) THEN <<>>
    ELSE LET repo == image.RepoTags[t][1]
             cfg == FileBytes(image.Config)
             infos == [l \in 1..Len(image.Layers) |->
                          [digest |-> Sha256(FileBytes(image.Layers[l])),
                           size |-> Len(FileBytes(image.Layers[l])),
                           ext |-> image.Layers[l].ext]]
         IN ExpLayers(repo, t, image.Layers, 1)
            \o ExpUpload(repo, "config", t, 0, cfg)
            \o << [ExpReq(repo, "PUT", "manifest", t, 0, 201) EXCEPT
                      !.ctype = ManifestContentType,
                      !.body = CreateManifest(infos, [digest |-> Sha256(cfg), size |-> Len(cfg)])] >>
            \o ExpTags(image, t + 1)

\* C16: tag rewriting frame - whatever the tag options, a successful push
\* of an image to an empty registry that answers as it should issues one
\* and the same sequence of requests up to the tag of the manifest PUTs:
\* image names, blob requests, their order, byte ranges and digests, and
\* the manifest bodies do not depend on the options
RewriteFrame ==
    (Len(arch.images) = 1 /\ faults = 0 /\ preload = {}) =>
        \A i \in 1..NImages : result[i] = "ok" =>
            [k \in 1..Len(reqs[i]) |-> Erase(reqs[i][k])] = ExpTags(arch.images[i], 1)

\* a push with a rewritten tag has gone through
RewriteFrameWitness ==
    /\ Len(arch.images) = 1 /\ faults = 0 /\ preload = {}
    /\ replace_tags_match = MatchOne /\ replace_tags_target = TargetV2
    /\ result[1] = "ok"
    /\ \E k \in 1..Len(reqs[1]) : reqs[1][k].tag = "v2"
    /\ \E k \in 1..Len(manifests) : manifests[k].tag = "v2"

\* the loop over repo_tags of image i got to position t: it is the first
\* entry, or the manifest of the entry before it was accepted
EntryReached(i, t) ==
    /\ FileExists(arch.images[i].Config) /\ IsJson(arch.images[i].Config)
    /\ t = 1 \/ \E k \in 1..Len(reqs[i]) :
                   IsManifestPut(reqs[i][k]) /\ reqs[i][k].ti = t - 1 /\ reqs[i][k].st = 201

\* C17: repo:tag parsing - once an image's task has ended, every entry of
\* RepoTags its loop got to was either split at its last ':' (the
\* requests for the entry go to the repository named before it, and there
\* are some when the image has a layer file to probe), or, having no ':',
\* was fatal for the image with no request issued for it
ParseLastColon ==
    \A i \in 1..NImages : \A t \in 1..Len(arch.images[i].RepoTags) :
        LET ref == arch.images[i].RepoTags[t]
            mine == {k \in 1..Len(reqs[i]) : reqs[i][k].ti = t}
        IN (result[i] \in {"ok", "failed"} /\ EntryReached(i, t)) =>
              IF Len(ref) >= 2
              THEN /\ (arch.images[i].Layers # <<>> /\ FileExists(arch.images[i].Layers[1]))
                        => mine # {}
                   /\ \A k \in mine :
                         /\ Len(ref) = 2 => reqs[i][k].repo = ref[1]
                         /\ IsManifestPut(reqs[i][k]) =>
                               reqs[i][k].tag \in {ref[Len(ref)], replace_tags_target.text}
              ELSE mine = {} /\ result[i] = "failed"

\* C18: recompression gating - once process() has extracted the archive
\* and read its manifest, i.e. from dispatch on, the recompression stage
\* has run if and only if gzip_layers is set
GzipGating ==
    (/\ mainpc \in {"dispatch", "collect", "finally", "returned", "raised", "exit"}
     /\ arch.extractOk /\ arch.manifestOk)
        => ((prepc # "off") <=> gzip_layers)

\* the Layers of manifest.json as extracted that ended in .tar are now
\* the same paths with .gz added
LayersRewritten ==
    /\ Len(manifest_json) = Len(extracted.manifest)
    /\ \A i \in 1..Len(manifest_json) :
          /\ Len(manifest_json[i].Layers) = Len(extracted.manifest[i].Layers)
          /\ \A l \in 1..Len(manifest_json[i].Layers) :
                LET old == extracted.manifest[i].Layers[l]
                    new == manifest_json[i].Layers[l]
                IN IF EndsWithTar(old)
                   THEN new = AddExt(old, GzipExt) /\ new.ext = ".gz"
                   ELSE new = old

\* C19 as claimed: recompression result - when the stage has completed, no
\* path named *.tar is left in the tree, every Layers entry that ended in
\* .tar ends in .tar.gz, and every rewritten entry names an existing file
RecompressionResult ==
    prepc = "done" =>
        /\ \A q \in PrePaths : EndsWithTar(q) => tree[q].kind = "none"
        /\ LayersRewritten
        /\ \A i \in 1..Len(manifest_json) : \A l \in 1..Len(manifest_json[i].Layers) :
              EndsWithTar(extracted.manifest[i].Layers[l])
                  => Exists(tree, manifest_json[i].Layers[l])

\* C19 amended: when the stage has completed, the only paths named *.tar
\* left are those whose *.tar.gz was there before the stage; the *.tar.gz
\* is as it was, and so is the path, but for a symbolic link to a
\* layer.tar, which now points at target + '.gz'; every Layers entry that
\* ended in .tar ends in .tar.gz; and every rewritten entry whose .tar
\* was in the extracted tree names an existing file
RecompressionResultAmended ==
    prepc = "done" =>
        /\ \A q \in PrePaths : (EndsWithTar(q) /\ tree[q].kind # "none") =>
              /\ Exists(extracted.tree, AddExt(q, GzipExt))
              /\ LET was == extracted.tree[q]
                 IN  tree[q] = IF was.kind = "link" /\ EndsWithLayerTar(was.target)
                               THEN Link(AddExt(was.target, GzipExt))
                               ELSE was
              /\ tree[AddExt(q, GzipExt)] = extracted.tree[AddExt(q, GzipExt)]
        /\ LayersRewritten
        /\ \A i \in 1..Len(manifest_json) : \A l \in 1..Len(manifest_json[i].Layers) :
              LET old == extracted.manifest[i].Layers[l]
              IN (EndsWithTar(old) /\ extracted.tree[old].kind # "none")
                    => Exists(tree, manifest_json[i].Layers[l])

\* the stage has completed on a tree with a layer that was a symbolic
\* link with its layer.tar.gz beside it: the link is still there,
\* re-pointed, its layer.tar.gz as it was, and the other layer is a
\* regular .tar.gz file
RecompressionResultWitness ==
    /\ prepc = "done" /\ extracted = TreeLinkedGz
    /\ tree[TA].kind = "none"
    /\ tree[AddExt(TA, GzipExt)] = File(Gzip(<<1, 2>>))
    /\ tree[TB] = Link(AddExt(TA, GzipExt))
    /\ tree[AddExt(TB, GzipExt)] = File(Gzip(<<3>>))
    /\ manifest_json[1].Layers = <<AddExt(TA, GzipExt), AddExt(TB, GzipExt)>>

\* C20: diff_ids recomputation - when the stage has completed, for every
\* layer rewritten to .tar.gz the image config on disk has at that index
\* the sha256 digest of the gzip file, and as many diff_ids as Layers
DiffIdsRecomputed ==
    prepc = "done" =>
        \A i \in 1..Len(manifest_json) :
            /\ Len(config_json.diff_ids) = Len(manifest_json[i].Layers)
            /\ \A l \in 1..Len(manifest_json[i].Layers) :
                  (/\ EndsWithTar(extracted.manifest[i].Layers[l])
                   /\ Exists(tree, manifest_json[i].Layers[l]))
                      => config_json.diff_ids[l] =
                             Sha256(Resolve(tree, manifest_json[i].Layers[l]).bytes)

\* C21: stream suppression - with a pool of more than one thread nothing
\* is ever printed by _stream_print, whatever the stream argument; with
\* one thread the argument decides: nothing is printed without it, and
\* with it every chunk sent is announced
StreamSuppressed ==
    /\ par > 1 => ~printed
    /\ (par = 1 /\ ~stream) => ~printed
    /\ (par = 1 /\ stream /\ \E i \in 1..NImages : \E k \in 1..Len(reqs[i]) :
                                  reqs[i][k].m \in {"PATCH", "PUT"} /\ reqs[i][k].kind # "manifest")
          => printed

\* chunks were uploaded by a pool of two threads asked to stream
StreamSuppressedWitness ==
    /\ par > 1 /\ stream /\ ~printed
    /\ \E i \in 1..NImages : \E k \in 1..Len(reqs[i]) :
          reqs[i][k].m = "PATCH" /\ reqs[i][k].st = 202

\* C22: extraction containment - nothing is ever written outside the
\* working directory, and an archive with a member whose path escapes it
\* makes extract_all fail
ExtractionContained ==
    /\ ~outside
    /\ (Escapes(arch) /\ mainpc \notin {"start", "extract"}) => mainExc.kind = "extract"

\* C23: override working directory - when the override path is taken,
\* process() raises from os.mkdir: it never gets to the extraction, no
\* task is handed to the pool, no request reaches the registry, and the
\* directory that was there stays
OverrideExists ==
    override = "exists" =>
        /\ mainpc \in {"start", "raised", "exit"}
        /\ mainpc # "start" => mainExc.kind = "FileExistsError"
        /\ dirExists
        /\ ~outside
        /\ queue = <<>>
        /\ \A i \in 1..NImages : result[i] = "none" /\ reqs[i] = <<>>
        /\ blobs = preload /\ manifests = <<>>

\* process() on a taken override path has raised FileExistsError, the
\* directory still there
OverrideExistsWitness ==
    /\ override = "exists" /\ NImages > 0
    /\ mainpc = "raised" /\ mainExc.kind = "FileExistsError" /\ dirExists

\* a PATCH or PUT of a chunked upload
IsChunkReq(r) == r.kind \in {"layer", "config"} /\ r.m \in {"PATCH", "PUT"}

\* the file an upload request of image i carries bytes of
UploadFile(i, r) ==
    IF r.kind = "layer" THEN arch.images[i].Layers[r.li] ELSE arch.images[i].Config

\* the chunk requests of one upload of image i, in the order sent
ChunkReqs(i, kind, t, l) ==
    LET Mine(r) == IsChunkReq(r) /\ r.kind = kind /\ r.ti = t /\ r.li = l
    IN  SelectSeq(reqs[i], Mine)

\* C24: chunk request sequence - an upload of a file read as n >= 1
\* chunks that has just returned (the worker is at the finally clause of
\* _process_layer, or about to push the manifest) has sent exactly n requests in file order, n-1
\* PATCH and then one PUT with the last chunk and the digest of the file;
\* in no upload, failed ones included, does a request follow the PUT
ChunkSequence ==
    /\ \A i \in 1..NImages : \A k \in 1..Len(reqs[i]) :
          LET r == reqs[i][k]
              s == ChunkReqs(i, r.kind, r.ti, r.li)
              n == NChunks(Len(FileBytes(UploadFile(i, r))))
          IN  IsChunkReq(r) =>
                /\ \A j \in 1..Len(s) : s[j].m = "PUT" => j = Len(s)
                /\ \A j \in 1..Len(s) : s[j].start = (j - 1) * ChunkSize
                /\ Len(s) <= n
                /\ s[Len(s)].m = "PUT" <=> Len(s) = n
                /\ \A j \in 1..(Len(s) - 1) : s[j].m = "PATCH" /\ s[j].st = 202
                /\ r.m = "PUT" => r.dg = Sha256(FileBytes(UploadFile(i, r)))
    /\ \A w \in Workers :
          (up[w].state = "returned" /\ pc[w] \in {"rel_gl", "manifest"}
              /\ up[w].total_size >= 1) =>
             LET s == ChunkReqs(img[w], up[w].kind, ti[w], up[w].li)
             IN  /\ Len(s) = NChunks(up[w].total_size)
                 /\ s[Len(s)].m = "PUT" /\ s[Len(s)].st = 201
                 /\ up[w].nput = 1

\* an upload of three chunks has returned
ChunkSequenceWitness ==
    \E w \in Workers :
        /\ up[w].state = "returned" /\ pc[w] \in {"rel_gl", "manifest"}
        /\ NChunks(up[w].total_size) = 3
        /\ Len(ChunkReqs(img[w], up[w].kind, ti[w], up[w].li)) = 3

\* C25: Content-Range contiguity - the first request of an upload starts
\* at 0, every request has end = start + len(chunk) and Content-Length =
\* len(chunk), each request starts where the one before ended, and the
\* PUT ends at the file size
ContentRangeContiguous ==
    \A i \in 1..NImages : \A k \in 1..Len(reqs[i]) :
        LET r == reqs[i][k]
            bytes == FileBytes(UploadFile(i, r))
        IN  IsChunkReq(r) =>
              /\ k > 1
              /\ LET p == reqs[i][k - 1]
                 IN  /\ p.kind = r.kind /\ p.ti = r.ti /\ p.li = r.li
                     /\ p.m \in {"POST", "PATCH"}
                     /\ p.m = "POST" => r.start = 0
                     /\ p.m = "PATCH" => r.start = p.end
              /\ r.clen = Len(ReadChunk(bytes, r.start))
              /\ r.clen >= 1
              /\ r.end = r.start + r.clen
              /\ r.m = "PUT" => r.end = Len(bytes)

\* the PUT that ends a five byte file after two PATCH requests
ContentRangeWitness ==
    \E i \in 1..NImages : \E k \in 3..Len(reqs[i]) :
        /\ IsChunkReq(reqs[i][k]) /\ reqs[i][k].m = "PUT" /\ reqs[i][k].st = 201
        /\ reqs[i][k].start = 4 /\ reqs[i][k].end = 5
        /\ reqs[i][k - 1].m = "PATCH" /\ reqs[i][k - 2].m = "PATCH"

\* C26: upload URL tracking - the first request of an upload goes to the
\* Location of the POST response; a request after a PATCH goes to the
\* Location of that PATCH response when it had one, and to the URL the
\* PATCH went to when it had none
UploadUrlTracked ==
    \A i \in 1..NImages : \A k \in 1..Len(reqs[i]) :
        LET r == reqs[i][k] IN
        IsChunkReq(r) =>
          /\ k > 1
          /\ LET p == reqs[i][k - 1]
             IN  /\ p.m = "POST" => r.url = p.url /\ p.url # 0
                 /\ p.m = "PATCH" => r.url = (IF p.rloc # 0 THEN p.rloc ELSE p.url)
                 /\ p.m \in {"POST", "PATCH"} /\ p.kind = r.kind

\* a PUT sent to the Location of the first PATCH response, the second
\* PATCH response having had none
UploadUrlWitness ==
    \E i \in 1..NImages : \E k \in 4..Len(reqs[i]) :
        /\ IsChunkReq(reqs[i][k]) /\ reqs[i][k].m = "PUT"
        /\ reqs[i][k - 1].m = "PATCH" /\ reqs[i][k - 1].rloc = 0
        /\ reqs[i][k - 2].m = "PATCH" /\ reqs[i][k - 2].rloc # 0
        /\ reqs[i][k - 3].m = "POST" /\ reqs[i][k - 3].url # reqs[i][k - 2].rloc
        /\ reqs[i][k].url = reqs[i][k - 2].rloc

\* C27: lock scope and release - a pool thread that is inside
\* _process_layer after acquire() (digest, HEAD, POST, PATCH, PUT, or an
\* exception that has not passed the finally clause yet) holds the lock of
\* its layer key; one that is anywhere else holds no layer lock, whether
\* it left _process_layer by return or by exception
LockScope ==
    /\ \A w \in Workers :
          /\ Holding(w) =>
                /\ held[lk[w]] = w
                /\ layers_locks[LayerKey(Layer(w))] = lk[w]
          /\ ~Holding(w) => \A l \in 1..Len(held) : held[l] # w
    /\ (\A w \in Workers : pc[w] = "idle") => \A l \in 1..Len(held) : held[l] = 0

\* a thread's layer upload has failed and the exception is past the
\* finally clause; another thread has acquired the lock of the same key
LockScopeWitness ==
    \E w, v \in Workers :
        /\ w # v
        /\ pc[w] = "unwind" /\ up[w].state = "failed" /\ up[w].kind = "layer"
        /\ ~Holding(w)
        /\ Holding(v) /\ lk[v] = lk[w] /\ held[lk[v]] = v

\* C28: lock table consistency - an entry of the table, once created, is
\* never replaced or removed; different keys have different lock objects;
\* and what get_lock returned to a pool thread, on its call before
\* acquire() and on its call before release(), is the entry of its key
LockTableConsistent ==
    /\ [](\A k1, k2 \in DOMAIN layers_locks :
            k1 # k2 => layers_locks[k1] # layers_locks[k2])
    /\ [](\A w \in Workers :
            (pc[w] \in {"acquire", "rel"} \/ Holding(w))
                => /\ LayerKey(Layer(w)) \in DOMAIN layers_locks
                   /\ lk[w] = layers_locks[LayerKey(Layer(w))])
    /\ [][\A k \in DOMAIN layers_locks :
            k \in DOMAIN layers_locks' /\ layers_locks'[k] = layers_locks[k]]_vars

\* get_lock has returned to one thread before acquire() and to another,
\* for another key, before release(): two entries, two lock objects
LockTableWitness ==
    \E w, v \in Workers :
        /\ pc[w] = "rel" /\ pc[v] = "acquire"
        /\ LayerKey(Layer(w)) # LayerKey(Layer(v))
        /\ lk[w] # lk[v]
        /\ lk[w] = layers_locks[LayerKey(Layer(w))]
        /\ lk[v] = layers_locks[LayerKey(Layer(v))]

\* C29: atomic symlink retarget - from the call of _correct_symlinks to
\* its return, a path that was extracted as a symbolic link to a target
\* ending in layer.tar is a symbolic link, to that target or to the
\* target + '.gz'
AtomicRetarget ==
    \A q \in PrePaths :
        (/\ prepc \in {"symlinks", "unlink", "rename"}
         /\ IsLink(extracted.tree, q)
         /\ EndsWithLayerTar(extracted.tree[q].target))
        => /\ IsLink(tree, q)
           /\ tree[q].target \in {extracted.tree[q].target,
                                   AddExt(extracted.tree[q].target, GzipExt)}

\* the task of a path is compressing: it has opened the file and has not
\* yet removed it
Compressing(q) == ptask[q] \in {"open", "gzopen", "lines", "gzclosed", "written"}

\* C30: two-pass compression ordering - a regular *.tar file is only
\* compressed in the first pass and a symbolic link only in the second
\* (which starts after the tasks of the first are joined), and no task
\* fails on, or reads through, a symbolic link whose target is missing or
\* is being worked on by another task
TwoPassOrdering ==
    \A q \in PrePaths :
        /\ (Compressing(q) /\ ~IsLink(tree, q)) => prepc = "pass1"
        /\ (Compressing(q) /\ IsLink(tree, q)) =>
              /\ prepc = "pass2"
              /\ \A x \in PrePaths \ {q} :
                    Compressing(x) => tree[q].target \notin {x, AddExt(x, GzipExt)}
        /\ ~(ptask[q] = "raised" /\ IsLink(tree, q))

\* the POST requests of image i that start the config upload of its
\* RepoTags entry t
ConfigPosts(i, t) ==
    LET Mine(r) == r.kind = "config" /\ r.m = "POST" /\ r.ti = t
    IN  SelectSeq(reqs[i], Mine)

\* C31: per-config protocol - no HEAD request is made for an image config;
\* a pool thread that initializes or sends the config upload holds no
\* layer lock; every RepoTags entry that got its manifest pushed had its
\* own config POST followed by the chunk requests up to the 201 PUT, and
\* an image that was processed to the end made one config POST for each
\* of its RepoTags entries
ConfigProtocol ==
    /\ \A i \in 1..NImages : \A k \in 1..Len(reqs[i]) :
          LET r == reqs[i][k] IN
          /\ r.kind = "config" => r.m \in {"POST", "PATCH", "PUT"}
          /\ (r.kind = "manifest" /\ r.m = "PUT") =>
                /\ Len(ConfigPosts(i, r.ti)) = 1
                /\ k > 2
                /\ reqs[i][k - 1].kind = "config" /\ reqs[i][k - 1].m = "PUT"
                /\ reqs[i][k - 1].st = 201 /\ reqs[i][k - 1].ti = r.ti
    /\ \A w \in Workers :
          (pc[w] = "cfg_post" \/ (pc[w] = "chunk" /\ up[w].kind = "config"))
              => \A l \in 1..Len(held) : held[l] # w
    /\ \A i \in 1..NImages :
          result[i] = "ok" =>
             \A t \in 1..Len(arch.images[i].RepoTags) : Len(ConfigPosts(i, t)) = 1

\* an image with two RepoTags entries was pushed: two config POSTs, the
\* second made when the registry already held the config blob
ConfigProtocolWitness ==
    \E i \in 1..NImages :
        /\ result[i] = "ok"
        /\ Len(arch.images[i].RepoTags) = 2
        /\ Len(ConfigPosts(i, 1)) = 1 /\ Len(ConfigPosts(i, 2)) = 1
        /\ \E k \in 1..Len(reqs[i]) :
              /\ reqs[i][k].kind = "config" /\ reqs[i][k].m = "PUT"
              /\ reqs[i][k].ti = 1 /\ reqs[i][k].st = 201

\* C32: upload completion for every size - a _chunked_upload that has
\* returned, of a file of any size, zero bytes included, has sent exactly
\* one PUT that was answered 201, and returns the sha256 digest of the
\* file's bytes, never None
UploadCompletes ==
    \A w \in Workers :
        up[w].state = "returned" =>
            /\ up[w].nput = 1
            /\ up[w].response_digest # NoDigest
            /\ up[w].response_digest = Sha256(FileBytes(up[w].path))

\* the layer locks a pool thread holds
LocksOf(w) == {l \in 1..Len(held) : held[l] = w}

\* C33: deadlock freedom and termination - a pool thread holds at most
\* one layer lock, and holds none while it waits in get_lock or acquire()
\* before entering _process_layer's try block; when the threads keep being
\* scheduled and every request returns, process() returns or raises
DeadlockFree ==
    /\ [](\A w \in Workers :
            /\ Cardinality(LocksOf(w)) <= 1
            /\ pc[w] \in {"getlock", "getlock2", "acquire"} => LocksOf(w) = {})
    /\ <>Finished

\* a thread waits in acquire() for the lock another thread holds
DeadlockFreeWitness ==
    \E w, v \in Workers :
        /\ w # v /\ pc[w] = "acquire" /\ lk[w] = lk[v]
        /\ LocksOf(v) = {lk[v]} /\ LocksOf(w) = {}

\* C34: the table lock is short-lived - it is held only by a pool thread
\* that is inside get_lock, between acquire() and the finally clause; a
\* thread that waits for a layer lock, holds one, or talks to the
\* registry does not hold it; and a thread that is blocked in acquire()
\* on the lock of one key holds neither the table lock nor the lock of
\* any key, so that a thread after the lock of a different key gets into
\* get_lock as soon as no thread is inside it, and is kept from that
\* lock only by a thread that holds it
TableLockShort ==
    /\ global_lock # 0 => pc[global_lock] \in {"getlock2", "rel_gl2"}
    /\ \A w \in Workers :
          pc[w] \in {"acquire", "probe", "post", "chunk", "cfg_post", "manifest", "rel"}
              => global_lock # w
    /\ \A w \in Workers :
          (pc[w] = "acquire" /\ ~CanAcquire(held, lk[w])) =>
              /\ global_lock # w
              /\ LocksOf(w) = {}
              /\ \A v \in Workers \ {w} :
                    (pc[v] = "acquire" /\ lk[v] # lk[w]) =>
                        \/ CanAcquire(held, lk[v])
                        \/ held[lk[v]] \notin {w, v} /\ pc[held[lk[v]]] # "acquire"

\* a thread waits in acquire() for the lock of one key, which a second
\* thread holds, while a third thread is at acquire() for the lock of a
\* different key, which is free
TableLockShortWitness ==
    \E w, v, x \in Workers :
        /\ w # v /\ w # x /\ v # x
        /\ pc[w] = "acquire" /\ held[lk[w]] = x
        /\ pc[v] = "acquire" /\ lk[v] # lk[w] /\ CanAcquire(held, lk[v])
        /\ LayerKey(Layer(v)) # LayerKey(Layer(w))

\* the RepoTags positions of image i whose manifest PUT was answered 201
Pushed(i) ==
    {reqs[i][k].ti : k \in {j \in 1..Len(reqs[i]) :
        IsManifestPut(reqs[i][j]) /\ reqs[i][j].st = 201}}

\* C35: no rollback on partial failure - the registry is only ever sent
\* HEAD, POST, PATCH and PUT; what it holds only grows; the RepoTags
\* entries of an image whose manifest was pushed are the entries before
\* the one at which the processing stopped, and when the image has failed
\* their manifests and every blob its requests uploaded are in the registry
NoRollback ==
    /\ [](\A i \in 1..NImages :
            /\ \A k \in 1..Len(reqs[i]) : reqs[i][k].m \in {"HEAD", "POST", "PATCH", "PUT"}
            /\ \E n \in 0..Len(arch.images[i].RepoTags) : Pushed(i) = 1..n
            /\ result[i] = "failed" =>
                  /\ Pushed(i) # 1..Len(arch.images[i].RepoTags)
                  /\ \A k \in 1..Len(reqs[i]) :
                        LET r == reqs[i][k] IN
                        /\ (IsManifestPut(r) /\ r.st = 201) =>
                              [repo |-> r.repo, tag |-> r.tag, body |-> r.body]
                                  \in Range(manifests)
                        /\ (IsChunkReq(r) /\ r.m = "PUT" /\ r.st = 201) =>
                              [repo |-> r.repo, digest |-> r.dg, size |-> r.end] \in blobs)
    /\ [][/\ blobs \subseteq blobs'
          /\ Len(manifests') >= Len(manifests)
          /\ SubSeq(manifests', 1, Len(manifests)) = manifests]_vars

\* an image has failed at its second RepoTags entry; the manifest of the
\* first is in the registry
NoRollbackWitness ==
    \E i \in 1..NImages :
        /\ result[i] = "failed"
        /\ Pushed(i) = {1}
        /\ \E m \in Range(manifests) : m.repo = arch.images[i].RepoTags[1][1]
        /\ blobs # preload

\* C36: which failure is raised - when tasks have failed, the exception
\* process() raises is the one of the failed image with the lowest
\* position in manifest.json, whichever task failed first
RaisedIsLowest ==
    (mainpc \in {"raised", "exit"} /\ \E i \in 1..NImages : result[i] = "failed") =>
        /\ mainExc.kind = "worker"
        /\ mainExc.img \in 1..NImages
        /\ result[mainExc.img] = "failed"
        /\ \A j \in 1..(mainExc.img - 1) : result[j] # "failed"

\* two images have failed, the one later in manifest.json first (its
\* error is the logger's first_error); process() has raised the exception
\* of the earlier one
RaisedIsLowestWitness ==
    /\ mainpc = "raised"
    /\ \E i, j \in 1..NImages :
          /\ i < j /\ result[i] = "failed" /\ result[j] = "failed"
          /\ first_error.img = j
          /\ mainExc.img = i

\* C37: single compression - when the recompression stage is done, the
\* file a rewritten Layers entry names holds the gzip of the bytes the
\* extracted layer had (read through the symbolic link, when the layer
\* was one), compressed once
SingleCompression ==
    prepc = "done" =>
        \A i \in 1..Len(extracted.manifest) :
          \A l \in 1..Len(extracted.manifest[i].Layers) :
            LET old == extracted.manifest[i].Layers[l]
                new == manifest_json[i].Layers[l]
            IN  (EndsWithTar(old) /\ Exists(extracted.tree, old)) =>
                  /\ new = AddExt(old, GzipExt)
                  /\ tree[new] = File(Gzip(Resolve(extracted.tree, old).bytes))

====
